---------------------------- MODULE Spec2Model ----------------------------
(***************************************************************************)
(* myRedis: the single-writer execution core (StandaloneDB), the LRU/LFU   *)
(* eviction caches underneath it, the TTL table, the append-only log       *)
(* (AofHandler) with its rewrite protocol, and snapshot save/apply.        *)
(*                                                                         *)
(* Time is counted in ticks of half a millisecond, so that time.Time is    *)
(* finer than UnixMilli() and the truncation of an absolute expiration to  *)
(* milliseconds is visible.  Byte strings are literals of a small          *)
(* universe whose len() is tabulated in BLen.  One frame of the append log *)
(* is one command (a RESP array of bulks).                                 *)
(***************************************************************************)
EXTENDS Integers, Sequences, FiniteSets, TLC

VARIABLES
    db,        \* StandaloneDB: cache (LRU or LFU), ttlMap, evictedKeys, aofRewriting
    now,       \* the wall clock, in ticks
    ops,       \* db.ops: requests submitted and not yet taken by the executor
    closing,   \* db.closing is closed
    bgState,   \* the background goroutine: "run", "drain", "exited"
    aof,       \* AofHandler: aofChan, closed, rewriting, rewriteBuf, done (handleAof returned)
    aofFile,   \* the frames of the live append log file
    rdbFile,   \* the snapshot file: <<>> (none) or <<entries>>
    rw,        \* the rewrite worker and its tmp file
    phase,     \* the process: "serve", "load", "closed"
    loadPos,   \* Load: how many frames of the append log have been replayed
    hist,      \* history variables of the properties (not program state)
    scn,       \* the scenario: which inputs the clients draw from
    saving,    \* the rdb.Save the executor is in, and the tmp file of the snapshot
    closers,   \* what the calls of Close have done to each component
    execs,     \* the calls of Exec that clients are in, each with its position
    conn,      \* a client connection: bytes in flight, parser, handler, replies written
    srv,       \* Server: Start's accept loop, the connections, Shutdown, the wait group
    crc,       \* crc32.ChecksumIEEE on the strings the cluster hashes
    routers,   \* the Router of each node of the cluster, with its local database
    calls      \* the commands clients sent to the cluster, each with its progress

standaloneVars ==
    <<db, now, ops, closing, bgState, aof, aofFile, rdbFile, rw, phase, loadPos, hist, scn,
      saving, closers, execs, conn, srv>>
clusterVars == <<crc, routers, calls>>
vars == <<standaloneVars, clusterVars>>

---------------------------------------------------------------------------
(* Bounds of the model *)

\* the executor executes at most this many client commands per behaviour
MaxCmds == 4
\* the clock is advanced at most this many times
MaxAdvance == 1
\* the process is restarted at most this many times
MaxRestarts == 2
\* the cache-level specification applies at most this many cache operations
MaxCacheOps == 4
\* the value of the clock when the first process starts
StartTime == 10
\* the requests in flight in db.ops (the channel holds 1000)
MaxOps == 2
\* the tasks in flight in aofChan (the channel holds 1000)
MaxAofChan == 3
MaxFlushes == 2
MaxHash == 1
MaxCalls == 2
MaxHops == 2
MaxTripDelay == 2
MaxCloses == 2
MaxClients == 2
MaxPipeline == 3

\* the resolution of the clock: ticks per millisecond
TicksPerMs == 2

(* Program constants *)
MsPerSec == 1000
\* db.go: DefaultMaxBytes = 100 * 1024 * 1024
DefaultMaxBytes == 104857600
TicksPerSec == TicksPerMs * MsPerSec
\* types.go: the per-element overhead of the size estimates
Overhead == 16
\* activeExpire's sampleSize
sampleSize == 20
\* snapshotEntryToCommands' batch
batch == 512

---------------------------------------------------------------------------
(* Generic helpers *)

Put(f, k, v) == [x \in (DOMAIN f) \cup {k} |-> IF x = k THEN v ELSE f[x]]
Drop(f, k) == [x \in (DOMAIN f) \ {k} |-> f[x]]
SeqRemove(s, k) == SelectSeq(s, LAMBDA x : x # k)
Range(s) == {s[i] : i \in DOMAIN s}
Min(S) == CHOOSE x \in S : \A y \in S : x <= y
Last(s) == s[Len(s)]

\* the members of a set of strings in sort.Strings order; the model's
\* literals are ordered by the table StrRank
StrRank(s) ==
    CASE s = "f1" -> 1 [] s = "f2" -> 2
      [] s = "k1" -> 3 [] s = "k2" -> 4 [] s = "k3" -> 5
      [] s = "m1" -> 6 [] s = "m2" -> 7
      [] s = "x" -> 8 [] s = "y" -> 9 [] s = "z" -> 10
      [] OTHER -> 0

RECURSIVE SortStrings(_)
SortStrings(S) ==
    IF S = {} THEN <<>>
    ELSE LET m == CHOOSE x \in S : \A y \in S : StrRank(x) <= StrRank(y)
         IN <<m>> \o SortStrings(S \ {m})

---------------------------------------------------------------------------
(* Byte strings and values (db/types.go) *)

\* len() of the byte-string literals of the model
BLen(s) == IF s \in {"0123456789", "abcdefghij"} THEN 10 ELSE IF s = "" THEN 0
           ELSE IF s \in {"f1", "f2", "m1", "m2", "k1", "k2", "k3"} THEN 2 ELSE 1

StringData(s) == [type |-> "string", str |-> s, list |-> <<>>, hash |-> <<>>, set |-> {}]
ListData(l) == [type |-> "list", str |-> "", list |-> l, hash |-> <<>>, set |-> {}]
HashData(h) == [type |-> "hash", str |-> "", list |-> <<>>, hash |-> h, set |-> {}]
SetData(s) == [type |-> "set", str |-> "", list |-> <<>>, hash |-> <<>>, set |-> s]

\* ListData.Len: 16 bytes of node header and the content, per element
RECURSIVE ListLen(_)
ListLen(l) ==
    IF l = <<>> THEN 0 ELSE BLen(Head(l)) + Overhead + ListLen(Tail(l))

\* HashData.Len over the fields F of h
RECURSIVE HashLen(_, _)
HashLen(h, F) ==
    IF F = {} THEN 0
    ELSE LET f == CHOOSE x \in F : TRUE
         IN BLen(f) + BLen(h[f]) + Overhead + HashLen(h, F \ {f})

\* SetData.Len
RECURSIVE SetLen(_)
SetLen(S) ==
    IF S = {} THEN 0
    ELSE LET m == CHOOSE x \in S : TRUE IN BLen(m) + Overhead + SetLen(S \ {m})

\* DataEntity.Len of the four variants
ValueLen(v) ==
    CASE v.type = "string" -> BLen(v.str)
      [] v.type = "list" -> ListLen(v.list)
      [] v.type = "hash" -> HashLen(v.hash, DOMAIN v.hash)
      [] v.type = "set" -> SetLen(v.set)

---------------------------------------------------------------------------
(* The eviction caches.  A cache and the StandaloneDB fields its removal    *)
(* callback writes are one record D:                                        *)
(*   policy, maxBytes, nbytes, vals (key -> value),                         *)
(*   order (LRU: ll, front first),                                          *)
(*   freq, buckets, minFreq (LFU: buckets[f] front first),                  *)
(*   ttl (db.ttlMap), ev (db.evictedKeys),                                  *)
(*   hung (an eviction loop that cannot end has been entered),              *)
(*   emit (frames passed to AddAof in the current executor step),           *)
(*   rewriting (db.aofRewriting)                                            *)

NewDB(policy, maxBytes) ==
    [policy |-> policy, maxBytes |-> maxBytes, nbytes |-> 0, vals |-> <<>>,
     order |-> <<>>, freq |-> <<>>, buckets |-> <<>>, minFreq |-> 0,
     ttl |-> <<>>, ev |-> <<>>, hung |-> FALSE, emit |-> <<>>, rewriting |-> FALSE]

Has(D, key) == key \in DOMAIN D.vals

\* the removal callback installed by NewStandaloneDBWithConfig
onEvicted(D, key, reason) ==
    [D EXCEPT !.ttl = Drop(D.ttl, key),
              !.ev = IF reason = "evicted" THEN Append(D.ev, key) ELSE D.ev]

\* a removeEntry that leaves nbytes as it was
LruRemoveEntryKeepsBytes(D, key, reason) ==
    onEvicted([D EXCEPT !.order = SeqRemove(D.order, key),
                        !.vals = Drop(D.vals, key)],
              key, reason)

\* Cache.removeEntry (LRU)
LruRemoveEntry(D, key, reason) ==
    onEvicted([D EXCEPT !.order = SeqRemove(D.order, key),
                        !.vals = Drop(D.vals, key),
                        !.nbytes = D.nbytes - (BLen(key) + ValueLen(D.vals[key]))],
              key, reason)

\* LFUCache.recalculateMinFreq, on the buckets B
recalculateMinFreq(B) == IF DOMAIN B = {} THEN 0 ELSE Min(DOMAIN B)

\* LFUCache.removeEntry
LfuRemoveEntry(D, key, reason) ==
    LET f == D.freq[key]
        rest == SeqRemove(D.buckets[f], key)
        B == IF rest = <<>> THEN Drop(D.buckets, f) ELSE Put(D.buckets, f, rest)
        mf == IF rest = <<>> /\ D.minFreq = f
              THEN IF Cardinality(DOMAIN D.vals) = 1 THEN 0
                   ELSE IF (f + 1) \in DOMAIN B THEN f + 1 ELSE recalculateMinFreq(B)
              ELSE D.minFreq
    IN onEvicted([D EXCEPT !.buckets = B, !.minFreq = mf,
                           !.freq = Drop(D.freq, key),
                           !.vals = Drop(D.vals, key),
                           !.nbytes = D.nbytes - (BLen(key) + ValueLen(D.vals[key]))],
                 key, reason)

removeEntry(D, key, reason) ==
    IF D.policy = "lfu" THEN LfuRemoveEntry(D, key, reason)
    ELSE LruRemoveEntry(D, key, reason)

\* Cache.RemoveOldest: the back of ll, if any
RemoveOldest(D) ==
    IF D.order = <<>> THEN D ELSE LruRemoveEntry(D, Last(D.order), "evicted")

\* an evictOne that takes the front of the bucket, the entry used last
evictNewest(D) ==
    IF DOMAIN D.vals = {} THEN [D EXCEPT !.minFreq = 0]
    ELSE LET up == {f \in DOMAIN D.buckets : f >= D.minFreq}
             mf == IF up # {} THEN Min(up) ELSE recalculateMinFreq(D.buckets)
         IN LfuRemoveEntry([D EXCEPT !.minFreq = mf], Head(D.buckets[mf]), "evicted")

\* LFUCache.evictOne: the tail of the lowest bucket at or above minFreq
\* (the walk upwards; past 1,000,000 the code recalculates)
evictOne(D) ==
    IF DOMAIN D.vals = {} THEN [D EXCEPT !.minFreq = 0]
    ELSE LET up == {f \in DOMAIN D.buckets : f >= D.minFreq}
             mf == IF up # {} THEN Min(up) ELSE recalculateMinFreq(D.buckets)
         IN LfuRemoveEntry([D EXCEPT !.minFreq = mf], Last(D.buckets[mf]), "evicted")

\* a faulty EvictLoop: an `if` in place of the `for`, one eviction only
EvictOnce(D) ==
    IF D.maxBytes # 0 /\ D.nbytes > D.maxBytes /\ DOMAIN D.vals # {}
    THEN IF D.policy = "lfu" THEN evictOne(D) ELSE RemoveOldest(D)
    ELSE D

\* the loop that ends Add: for maxBytes != 0 && nbytes > maxBytes { evict }.
\* With nothing left to evict the loop never ends: hung.
RECURSIVE EvictLoop(_)
EvictLoop(D) ==
    IF D.maxBytes # 0 /\ D.nbytes > D.maxBytes
    THEN IF DOMAIN D.vals = {} THEN [D EXCEPT !.hung = TRUE]
         ELSE EvictLoop(IF D.policy = "lfu" THEN evictOne(D) ELSE RemoveOldest(D))
    ELSE D

\* LFUCache.increment
increment(D, key) ==
    LET f == D.freq[key]
        rest == SeqRemove(D.buckets[f], key)
        B == IF rest = <<>> THEN Drop(D.buckets, f) ELSE Put(D.buckets, f, rest)
        mf == IF rest = <<>> /\ D.minFreq = f THEN f + 1 ELSE D.minFreq
        nb == IF (f + 1) \in DOMAIN B THEN <<key>> \o B[f + 1] ELSE <<key>>
    IN [D EXCEPT !.buckets = Put(B, f + 1, nb), !.minFreq = mf,
                 !.freq = Put(D.freq, key, f + 1)]

\* Cache.Add (LRU), ttl = 0.  old is the entry's value as it is now: a List,
\* Hash or Set that the caller changed in place is already changed.
LruAdd(D, key, value) ==
    EvictLoop(
        IF Has(D, key)
        THEN [D EXCEPT !.order = <<key>> \o SeqRemove(D.order, key),
                       !.nbytes = D.nbytes + ValueLen(value) - ValueLen(D.vals[key]),
                       !.vals = Put(D.vals, key, value)]
        ELSE [D EXCEPT !.order = <<key>> \o D.order,
                       !.vals = Put(D.vals, key, value),
                       !.nbytes = D.nbytes + BLen(key) + ValueLen(value)])

\* LFUCache.Add, ttl = 0
LfuAdd(D, key, value) ==
    EvictLoop(
        IF Has(D, key)
        THEN increment([D EXCEPT
                 !.nbytes = D.nbytes + ValueLen(value) - ValueLen(D.vals[key]),
                 !.vals = Put(D.vals, key, value)], key)
        ELSE [D EXCEPT !.freq = Put(D.freq, key, 1),
                       !.buckets = Put(D.buckets, 1,
                           IF 1 \in DOMAIN D.buckets THEN <<key>> \o D.buckets[1]
                           ELSE <<key>>),
                       !.vals = Put(D.vals, key, value),
                       !.nbytes = D.nbytes + BLen(key) + ValueLen(value),
                       !.minFreq = 1])

\* EvictionCache.Add
Add(D, key, value) ==
    IF D.policy = "lfu" THEN LfuAdd(D, key, value) ELSE LruAdd(D, key, value)

\* EvictionCache.Get: the entry is promoted (entries carry no cache-level ttl)
Get(D, key) ==
    IF ~Has(D, key) THEN D
    ELSE IF D.policy = "lfu" THEN increment(D, key)
    ELSE [D EXCEPT !.order = <<key>> \o SeqRemove(D.order, key)]

\* EvictionCache.Peek: no promotion
Peek(D, key) == D

\* EvictionCache.Remove
Remove(D, key) == IF Has(D, key) THEN removeEntry(D, key, "deleted") ELSE D

\* the owner of a List, Hash or Set changes it through the pointer the
\* cache holds too: the entry's value changes, nbytes does not
InPlace(D, key, value) == [D EXCEPT !.vals = Put(D.vals, key, value)]

---------------------------------------------------------------------------
(* Decimal text (strconv) and time (package time) *)

DigitVal(c) ==
    CASE c = "0" -> 0 [] c = "1" -> 1 [] c = "2" -> 2 [] c = "3" -> 3 [] c = "4" -> 4
      [] c = "5" -> 5 [] c = "6" -> 6 [] c = "7" -> 7 [] c = "8" -> 8 [] c = "9" -> 9
      [] OTHER -> -1

DigitChar(n) ==
    CASE n = 0 -> "0" [] n = 1 -> "1" [] n = 2 -> "2" [] n = 3 -> "3" [] n = 4 -> "4"
      [] n = 5 -> "5" [] n = 6 -> "6" [] n = 7 -> "7" [] n = 8 -> "8" [] n = 9 -> "9"

\* the value of a string of decimal digits, most significant first
RECURSIVE DigitsVal(_)
DigitsVal(ds) ==
    IF ds = <<>> THEN 0 ELSE DigitsVal(SubSeq(ds, 1, Len(ds) - 1)) * 10 + DigitVal(Last(ds))

\* strconv.ParseInt(s, 10, 64) of the text s (a sequence of characters)
ParseInt(s) ==
    LET neg == s # <<>> /\ Head(s) = "-"
        ds == IF neg THEN Tail(s) ELSE s
    IN IF ds = <<>> \/ \E i \in DOMAIN ds : DigitVal(ds[i]) < 0
       THEN [ok |-> FALSE, n |-> 0]
       ELSE [ok |-> TRUE, n |-> IF neg THEN 0 - DigitsVal(ds) ELSE DigitsVal(ds)]

RECURSIVE NatDigits(_)
NatDigits(n) ==
    IF n < 10 THEN <<DigitChar(n)>> ELSE Append(NatDigits(n \div 10), DigitChar(n % 10))

\* strconv.FormatInt(n, 10)
FormatInt(n) == IF n < 0 THEN <<"-">> \o NatDigits(0 - n) ELSE NatDigits(n)

\* Time.UnixMilli: the instant in whole milliseconds
UnixMilli(t) == t \div TicksPerMs
\* time.UnixMilli(ms)
TimeOfMilli(ms) == ms * TicksPerMs

---------------------------------------------------------------------------
(* Commands and replies.  A command is argv = name, key, args..., and for  *)
(* EXPIRE and PEXPIREAT the decimal text num as last argument.             *)

Cmd(name, key, args, num) == [name |-> name, key |-> key, args |-> args, num |-> num]
Argc(cmd) == 1 + (IF cmd.key = "" THEN 0 ELSE 1) + Len(cmd.args)
               + (IF cmd.num = <<>> THEN 0 ELSE 1)

MakeStatusReply(s) == [kind |-> "status", n |-> 0, s |-> s, a |-> <<>>]
MakeErrReply(s) == [kind |-> "error", n |-> 0, s |-> s, a |-> <<>>]
MakeIntReply(n) == [kind |-> "int", n |-> n, s |-> "", a |-> <<>>]
MakeBulkReply(s) == [kind |-> "bulk", n |-> 0, s |-> s, a |-> <<>>]
MakeMultiBulkReply(a) == [kind |-> "multi", n |-> 0, s |-> "", a |-> a]
NullBulkReply == [kind |-> "null", n |-> 0, s |-> "", a |-> <<>>]
OkReply == MakeStatusReply("OK")
NoReply == [kind |-> "none", n |-> 0, s |-> "", a |-> <<>>]
WrongType == MakeErrReply("WRONGTYPE")
ErrArgs == MakeErrReply("ERR wrong number of arguments")
ErrInt == MakeErrReply("ERR value is not an integer or out of range")

R(D, res) == [D |-> D, res |-> res]

\* a faulty check of the TTL that finds no key past-due
ExpiredNever(D, key, t) == FALSE

\* the TTL of key is past-due at t: time.Now().After(expireTime)
Expired(D, key, t) == key \in DOMAIN D.ttl /\ t > D.ttl[key]

\* AofHandler.AddAof from inside a command
Emit(D, frame) == [D EXCEPT !.emit = Append(D.emit, frame)]

---------------------------------------------------------------------------
(* Strings *)

\* a faulty set: the TTL of the key stays
setKeepingTtl(D, cmd, t) ==
    IF Argc(cmd) # 3 THEN R(D, ErrArgs)
    ELSE R(Add(D, cmd.key, StringData(cmd.args[1])), OkReply)

set(D, cmd, t) ==
    IF Argc(cmd) # 3 THEN R(D, ErrArgs)
    ELSE LET D1 == Add(D, cmd.key, StringData(cmd.args[1]))
         IN R([D1 EXCEPT !.ttl = Drop(D1.ttl, cmd.key)], OkReply)

get(D, cmd, t) ==
    IF Argc(cmd) # 2 THEN R(D, ErrArgs)
    ELSE IF ~Has(D, cmd.key) THEN R(D, NullBulkReply)
    ELSE LET D1 == Get(D, cmd.key)
         IN IF Expired(D1, cmd.key, t) THEN R(Remove(D1, cmd.key), NullBulkReply)
            ELSE IF D1.vals[cmd.key].type # "string" THEN R(D1, WrongType)
            ELSE R(D1, MakeBulkReply(D1.vals[cmd.key].str))

\* DEL k1 k2 ...: the keys are cmd.key and cmd.args
RECURSIVE delKeys(_, _, _)
delKeys(D, keys, n) ==
    IF keys = <<>> THEN R(D, MakeIntReply(n))
    ELSE IF Has(D, Head(keys)) THEN delKeys(Remove(D, Head(keys)), Tail(keys), n + 1)
    ELSE delKeys(D, Tail(keys), n)

del(D, cmd, t) ==
    IF Argc(cmd) < 2 THEN R(D, ErrArgs)
    ELSE delKeys(D, <<cmd.key>> \o cmd.args, 0)

---------------------------------------------------------------------------
(* Lists *)

Reverse(s) == [i \in 1..Len(s) |-> s[Len(s) + 1 - i]]

\* a faulty getListForWrite: the variant is checked before the TTL
getListForWriteTypeFirst(D, key, t) ==
    IF ~Has(D, key) THEN [D |-> D, l |-> <<>>, fresh |-> TRUE, err |-> FALSE]
    ELSE LET D1 == Get(D, key)
         IN IF D1.vals[key].type # "list"
            THEN [D |-> D1, l |-> <<>>, fresh |-> FALSE, err |-> TRUE]
            ELSE IF Expired(D1, key, t)
            THEN [D |-> Remove(D1, key), l |-> <<>>, fresh |-> TRUE, err |-> FALSE]
            ELSE [D |-> D1, l |-> D1.vals[key].list, fresh |-> FALSE, err |-> FALSE]

\* getListForWrite: [D, l, fresh, err]; fresh: l is a new list, not the entry's
getListForWrite(D, key, t) ==
    IF ~Has(D, key) THEN [D |-> D, l |-> <<>>, fresh |-> TRUE, err |-> FALSE]
    ELSE LET D1 == Get(D, key)
         IN IF Expired(D1, key, t)
            THEN [D |-> Remove(D1, key), l |-> <<>>, fresh |-> TRUE, err |-> FALSE]
            ELSE IF D1.vals[key].type # "list"
            THEN [D |-> D1, l |-> <<>>, fresh |-> FALSE, err |-> TRUE]
            ELSE [D |-> D1, l |-> D1.vals[key].list, fresh |-> FALSE, err |-> FALSE]

\* the List l of key, changed through its pointer when it is the entry's own,
\* is handed to cache.Add
StoreList(D, key, l, fresh) ==
    Add(IF fresh THEN D ELSE InPlace(D, key, ListData(l)), key, ListData(l))

\* LPUSH and RPUSH after getListForWrite answered g: l is the list to store
push(g, l, cmd) ==
    IF g.err THEN R(g.D, WrongType)
    ELSE R(StoreList(g.D, cmd.key, l, g.fresh), MakeIntReply(Len(l)))

pushFront(g, cmd) == push(g, Reverse(cmd.args) \o g.l, cmd)
pushBack(g, cmd) == push(g, g.l \o cmd.args, cmd)

lpush(D, cmd, t) ==
    IF Argc(cmd) < 3 THEN R(D, ErrArgs)
    ELSE pushFront(getListForWrite(D, cmd.key, t), cmd)

rpush(D, cmd, t) ==
    IF Argc(cmd) < 3 THEN R(D, ErrArgs)
    ELSE pushBack(getListForWrite(D, cmd.key, t), cmd)

\* a faulty pop that stores the list it emptied
popKeepingEmpty(D, cmd, t, front) ==
    LET D1 == Get(D, cmd.key)
        l == D1.vals[cmd.key].list
        rest == IF front THEN Tail(l) ELSE SubSeq(l, 1, Len(l) - 1)
    IN IF Argc(cmd) # 2 THEN R(D, ErrArgs)
       ELSE IF ~Has(D, cmd.key) THEN R(D, NullBulkReply)
       ELSE IF Expired(D1, cmd.key, t) THEN R(Remove(D1, cmd.key), NullBulkReply)
       ELSE IF D1.vals[cmd.key].type # "list" THEN R(D1, WrongType)
       ELSE IF l = <<>> THEN R(D1, NullBulkReply)
       ELSE R(StoreList(D1, cmd.key, rest, FALSE),
              MakeBulkReply(IF front THEN Head(l) ELSE Last(l)))

\* LPOP (front = TRUE) and RPOP
popAt(D1, cmd, t, front) ==
    LET l == D1.vals[cmd.key].list
        rest == IF front THEN Tail(l) ELSE SubSeq(l, 1, Len(l) - 1)
        e == IF front THEN Head(l) ELSE Last(l)
    IN IF Expired(D1, cmd.key, t) THEN R(Remove(D1, cmd.key), NullBulkReply)
       ELSE IF D1.vals[cmd.key].type # "list" THEN R(D1, WrongType)
       ELSE IF l = <<>> THEN R(D1, NullBulkReply)
       ELSE IF rest = <<>>
       THEN R(Remove(InPlace(D1, cmd.key, ListData(rest)), cmd.key), MakeBulkReply(e))
       ELSE R(StoreList(D1, cmd.key, rest, FALSE), MakeBulkReply(e))

pop(D, cmd, t, front) ==
    IF Argc(cmd) # 2 THEN R(D, ErrArgs)
    ELSE IF ~Has(D, cmd.key) THEN R(D, NullBulkReply)
    ELSE popAt(Get(D, cmd.key), cmd, t, front)

lpop(D, cmd, t) == pop(D, cmd, t, TRUE)
rpop(D, cmd, t) == pop(D, cmd, t, FALSE)

llenAt(D1, cmd, t) ==
    IF Expired(D1, cmd.key, t) THEN R(Remove(D1, cmd.key), MakeIntReply(0))
    ELSE IF D1.vals[cmd.key].type # "list" THEN R(D1, WrongType)
    ELSE R(D1, MakeIntReply(Len(D1.vals[cmd.key].list)))

llen(D, cmd, t) ==
    IF Argc(cmd) # 2 THEN R(D, ErrArgs)
    ELSE IF ~Has(D, cmd.key) THEN R(D, MakeIntReply(0))
    ELSE llenAt(Get(D, cmd.key), cmd, t)

\* LRANGE on the entry found, with start a and stop b
lrangeAt(D1, a, b, cmd, t) ==
    LET l == D1.vals[cmd.key].list
        size == Len(l)
        start0 == IF a < 0 THEN size + a ELSE a
        stop0 == IF b < 0 THEN size + b ELSE b
        start == IF start0 < 0 THEN 0 ELSE start0
        stop == IF stop0 >= size THEN size - 1 ELSE stop0
    IN IF Expired(D1, cmd.key, t)
       THEN R(Remove(D1, cmd.key), MakeMultiBulkReply(<<>>))
       ELSE IF D1.vals[cmd.key].type # "list" THEN R(D1, WrongType)
       ELSE IF start > stop THEN R(D1, MakeMultiBulkReply(<<>>))
       ELSE R(D1, MakeMultiBulkReply(SubSeq(l, start + 1, stop + 1)))

lrangeParsed(D, a, b, cmd, t) ==
    IF ~a.ok \/ ~b.ok THEN R(D, ErrInt)
    ELSE IF ~Has(D, cmd.key) THEN R(D, MakeMultiBulkReply(<<>>))
    ELSE lrangeAt(Get(D, cmd.key), a.n, b.n, cmd, t)

\* LRANGE key start stop: start and stop are the decimal texts cmd.args
lrange(D, cmd, t) ==
    IF Argc(cmd) # 4 THEN R(D, ErrArgs)
    ELSE lrangeParsed(D, ParseInt(cmd.args[1]), ParseInt(cmd.args[2]), cmd, t)

---------------------------------------------------------------------------
(* Hashes *)

\* getHash: [D, h, ok].  A past-due key is removed and "del key" is passed
\* to AddAof when the database has an append log.
getHash(D, key, t, aofOn) ==
    IF ~Has(D, key) THEN [D |-> D, h |-> <<>>, ok |-> FALSE]
    ELSE LET D1 == Get(D, key)
             D2 == Remove(D1, key)
         IN IF Expired(D1, key, t)
            THEN [D |-> IF aofOn THEN Emit(D2, Cmd("del", key, <<>>, <<>>)) ELSE D2,
                  h |-> <<>>, ok |-> FALSE]
            ELSE IF D1.vals[key].type # "hash"
            THEN [D |-> D1, h |-> <<>>, ok |-> FALSE]
            ELSE [D |-> D1, h |-> D1.vals[key].hash, ok |-> TRUE]

\* the loop of hset over the field/value pairs: [h, count]
RECURSIVE hsetFields(_, _, _)
hsetFields(h, pairs, count) ==
    IF pairs = <<>> THEN [h |-> h, count |-> count]
    ELSE hsetFields(Put(h, pairs[1], pairs[2]), SubSeq(pairs, 3, Len(pairs)),
                    IF pairs[1] \in DOMAIN h THEN count ELSE count + 1)

\* the Hash h of key, changed in place when it is the entry's own, is handed
\* to cache.Add
StoreHash(D, key, h, fresh) ==
    Add(IF fresh THEN D ELSE InPlace(D, key, HashData(h)), key, HashData(h))

\* the reply for a key that getHash or getSet did not find as a value of
\* type: the second cache.Get (D2) tells a value of another type from none
NotFound(g, D2, key, type, res) ==
    IF Has(g.D, key) /\ D2.vals[key].type # type THEN R(D2, WrongType) ELSE R(D2, res)

\* hset after getHash answered g; D2: after the second cache.Get (the key is
\* not a Hash, or absent), f: the fields set
hsetStore(g, D2, f, cmd, t, aofOn) ==
    IF g.ok THEN R(StoreHash(g.D, cmd.key, f.h, FALSE), MakeIntReply(f.count))
    ELSE IF Has(g.D, cmd.key) /\ D2.vals[cmd.key].type # "hash"
    THEN IF Expired(D2, cmd.key, t)
         THEN R(StoreHash(IF aofOn THEN Emit(Remove(D2, cmd.key), Cmd("del", cmd.key, <<>>, <<>>))
                          ELSE Remove(D2, cmd.key), cmd.key, f.h, TRUE),
                MakeIntReply(f.count))
         ELSE R(D2, WrongType)
    ELSE R(StoreHash(D2, cmd.key, f.h, TRUE), MakeIntReply(f.count))

hsetGot(g, cmd, t, aofOn) ==
    hsetStore(g, Get(g.D, cmd.key), hsetFields(g.h, cmd.args, 0), cmd, t, aofOn)

hset(D, cmd, t, aofOn) ==
    IF Argc(cmd) < 4 \/ Argc(cmd) % 2 # 0 THEN R(D, ErrArgs)
    ELSE hsetGot(getHash(D, cmd.key, t, aofOn), cmd, t, aofOn)

\* the pairs field, value, field, value, ... of the hash h over the fields fs
RECURSIVE HashPairs(_, _)
HashPairs(h, fs) ==
    IF fs = <<>> THEN <<>> ELSE <<Head(fs), h[Head(fs)]>> \o HashPairs(h, Tail(fs))

hgetGot(g, cmd) ==
    IF ~g.ok THEN NotFound(g, Get(g.D, cmd.key), cmd.key, "hash", NullBulkReply)
    ELSE IF cmd.args[1] \in DOMAIN g.h THEN R(g.D, MakeBulkReply(g.h[cmd.args[1]]))
    ELSE R(g.D, NullBulkReply)

hget(D, cmd, t, aofOn) ==
    IF Argc(cmd) # 3 THEN R(D, ErrArgs) ELSE hgetGot(getHash(D, cmd.key, t, aofOn), cmd)

hgetallGot(g, cmd) ==
    IF ~g.ok THEN NotFound(g, Get(g.D, cmd.key), cmd.key, "hash", MakeMultiBulkReply(<<>>))
    ELSE R(g.D, MakeMultiBulkReply(HashPairs(g.h, SortStrings(DOMAIN g.h))))

\* HGETALL: the pairs are listed in field order here; the code lists them in
\* the order of Go's map iteration
hgetall(D, cmd, t, aofOn) ==
    IF Argc(cmd) # 2 THEN R(D, ErrArgs) ELSE hgetallGot(getHash(D, cmd.key, t, aofOn), cmd)

\* the loop of hdel over the fields: [h, count]
RECURSIVE hdelFields(_, _, _)
hdelFields(h, fields, count) ==
    IF fields = <<>> THEN [h |-> h, count |-> count]
    ELSE IF Head(fields) \in DOMAIN h
    THEN hdelFields(Drop(h, Head(fields)), Tail(fields), count + 1)
    ELSE hdelFields(h, Tail(fields), count)

\* hdel after getHash found the Hash of g: f is what is left of it
hdelStore(g, f, cmd) ==
    IF DOMAIN f.h = {}
    THEN R(Remove(InPlace(g.D, cmd.key, HashData(f.h)), cmd.key), MakeIntReply(f.count))
    ELSE R(StoreHash(g.D, cmd.key, f.h, FALSE), MakeIntReply(f.count))

hdelGot(g, cmd) ==
    IF ~g.ok THEN NotFound(g, Get(g.D, cmd.key), cmd.key, "hash", MakeIntReply(0))
    ELSE hdelStore(g, hdelFields(g.h, cmd.args, 0), cmd)

hdel(D, cmd, t, aofOn) ==
    IF Argc(cmd) < 3 THEN R(D, ErrArgs) ELSE hdelGot(getHash(D, cmd.key, t, aofOn), cmd)

---------------------------------------------------------------------------
(* Sets *)

\* getSet: [D, s, ok]
getSet(D, key, t) ==
    IF ~Has(D, key) THEN [D |-> D, s |-> {}, ok |-> FALSE]
    ELSE LET D1 == Get(D, key)
         IN IF Expired(D1, key, t) THEN [D |-> Remove(D1, key), s |-> {}, ok |-> FALSE]
            ELSE IF D1.vals[key].type # "set" THEN [D |-> D1, s |-> {}, ok |-> FALSE]
            ELSE [D |-> D1, s |-> D1.vals[key].set, ok |-> TRUE]

StoreSet(D, key, s, fresh) ==
    Add(IF fresh THEN D ELSE InPlace(D, key, SetData(s)), key, SetData(s))

\* sadd after getSet answered g; D2: after the second cache.Get, s: the set
\* with the members added
saddStore(g, D2, s, cmd, t) ==
    LET added == Cardinality(s) - Cardinality(g.s)
    IN IF g.ok
       THEN R(IF added > 0 \/ s = {} THEN StoreSet(g.D, cmd.key, s, FALSE) ELSE g.D,
              MakeIntReply(added))
       ELSE IF Has(g.D, cmd.key) /\ D2.vals[cmd.key].type # "set"
       THEN IF Expired(D2, cmd.key, t)
            THEN R(StoreSet(Remove(D2, cmd.key), cmd.key, s, TRUE), MakeIntReply(added))
            ELSE R(D2, WrongType)
       ELSE R(StoreSet(D2, cmd.key, s, TRUE), MakeIntReply(added))

saddGot(g, cmd, t) == saddStore(g, Get(g.D, cmd.key), g.s \cup Range(cmd.args), cmd, t)

sadd(D, cmd, t) ==
    IF Argc(cmd) < 3 THEN R(D, ErrArgs) ELSE saddGot(getSet(D, cmd.key, t), cmd, t)

\* srem after getSet found the Set of g: s is what is left of it
sremStore(g, s, cmd) ==
    IF s = {}
    THEN R(Remove(InPlace(g.D, cmd.key, SetData(s)), cmd.key),
           MakeIntReply(Cardinality(g.s) - Cardinality(s)))
    ELSE R(StoreSet(g.D, cmd.key, s, FALSE), MakeIntReply(Cardinality(g.s) - Cardinality(s)))

sremGot(g, cmd) ==
    IF ~g.ok THEN NotFound(g, Get(g.D, cmd.key), cmd.key, "set", MakeIntReply(0))
    ELSE sremStore(g, g.s \ Range(cmd.args), cmd)

srem(D, cmd, t) ==
    IF Argc(cmd) < 3 THEN R(D, ErrArgs) ELSE sremGot(getSet(D, cmd.key, t), cmd)

scardGot(g, cmd) ==
    IF ~g.ok THEN NotFound(g, Get(g.D, cmd.key), cmd.key, "set", MakeIntReply(0))
    ELSE R(g.D, MakeIntReply(Cardinality(g.s)))

scard(D, cmd, t) ==
    IF Argc(cmd) # 2 THEN R(D, ErrArgs) ELSE scardGot(getSet(D, cmd.key, t), cmd)

smembersGot(g, cmd) ==
    IF ~g.ok THEN NotFound(g, Get(g.D, cmd.key), cmd.key, "set", MakeMultiBulkReply(<<>>))
    ELSE R(g.D, MakeMultiBulkReply(SortStrings(g.s)))

\* SMEMBERS: the members are listed in order here; the code lists them in
\* the order of Go's map iteration
smembers(D, cmd, t) ==
    IF Argc(cmd) # 2 THEN R(D, ErrArgs) ELSE smembersGot(getSet(D, cmd.key, t), cmd)

---------------------------------------------------------------------------
(* TTL commands *)

expire(D, cmd, t) ==
    LET p == ParseInt(cmd.num)
    IN IF Argc(cmd) # 3 THEN R(D, ErrArgs)
       ELSE IF ~p.ok THEN R(D, ErrInt)
       ELSE IF ~Has(Peek(D, cmd.key), cmd.key) THEN R(D, MakeIntReply(0))
       ELSE IF p.n <= 0 THEN R(Remove(D, cmd.key), MakeIntReply(1))
       ELSE R([D EXCEPT !.ttl = Put(D.ttl, cmd.key, t + p.n * TicksPerSec)],
              MakeIntReply(1))

pexpireat(D, cmd, t) ==
    LET p == ParseInt(cmd.num)
    IN IF Argc(cmd) # 3 THEN R(D, ErrArgs)
       ELSE IF ~p.ok THEN R(D, ErrInt)
       ELSE IF ~Has(Peek(D, cmd.key), cmd.key) THEN R(D, MakeIntReply(0))
       ELSE IF ~(TimeOfMilli(p.n) > t) THEN R(Remove(D, cmd.key), MakeIntReply(1))
       ELSE R([D EXCEPT !.ttl = Put(D.ttl, cmd.key, TimeOfMilli(p.n))], MakeIntReply(1))

\* a ttl that looks the key up with cache.Get
ttlPromoting(D, cmd, t) ==
    IF Argc(cmd) # 2 THEN R(D, ErrArgs)
    ELSE IF ~Has(D, cmd.key) THEN R(D, MakeIntReply(-2))
    ELSE IF cmd.key \notin DOMAIN D.ttl THEN R(Get(D, cmd.key), MakeIntReply(-1))
    ELSE IF D.ttl[cmd.key] - t <= 0 THEN R(Remove(D, cmd.key), MakeIntReply(-2))
    ELSE R(Get(D, cmd.key), MakeIntReply((D.ttl[cmd.key] - t) \div TicksPerSec))

ttl(D, cmd, t) ==
    IF Argc(cmd) # 2 THEN R(D, ErrArgs)
    ELSE IF ~Has(Peek(D, cmd.key), cmd.key) THEN R(D, MakeIntReply(-2))
    ELSE IF cmd.key \notin DOMAIN D.ttl THEN R(D, MakeIntReply(-1))
    ELSE IF D.ttl[cmd.key] - t <= 0 THEN R(Remove(D, cmd.key), MakeIntReply(-2))
    ELSE R(D, MakeIntReply((D.ttl[cmd.key] - t) \div TicksPerSec))

persist(D, cmd, t) ==
    IF Argc(cmd) # 2 THEN R(D, ErrArgs)
    ELSE IF ~Has(Peek(D, cmd.key), cmd.key) THEN R(D, MakeIntReply(0))
    ELSE IF cmd.key \notin DOMAIN D.ttl THEN R(D, MakeIntReply(0))
    ELSE R([D EXCEPT !.ttl = Drop(D.ttl, cmd.key)], MakeIntReply(1))

---------------------------------------------------------------------------
(* The append log handler (AofHandler).  The world W the executor works on  *)
(* is db, aof (enabled, aofChan, closed, rewriting, rewriteBuf), file (the  *)
(* live log), rdb (the snapshot file), rw (the rewrite worker), rdbOn,      *)
(* fault (the step of a rewrite that the file system fails, "" for none).   *)
(* aof.stale: aofFile is the handle finishRewrite closed.                   *)

NewAofHandler ==
    [enabled |-> TRUE, aofChan |-> <<>>, closed |-> FALSE, rewriting |-> FALSE,
     rewriteBuf |-> <<>>, unsynced |-> 0, stale |-> FALSE]

\* AofHandler.AddAof
\* a faulty AddAof: the task overtakes the tasks queued before it
AddAofOvertaking(W, frame) ==
    IF W.aof.closed THEN W ELSE [W EXCEPT !.aof.aofChan = <<frame>> \o @]

AddAof(W, frame) ==
    IF W.aof.closed THEN W ELSE [W EXCEPT !.aof.aofChan = Append(@, frame)]

RECURSIVE AddAofAll(_, _)
AddAofAll(W, frames) ==
    IF frames = <<>> THEN W ELSE AddAofAll(AddAof(W, Head(frames)), Tail(frames))

\* a faulty handleAof: the payload is written and never buffered
handleAofUnbuffered(W) ==
    [W EXCEPT !.aof.aofChan = Tail(@), !.file = Append(@, Head(W.aof.aofChan)),
              !.aof.unsynced = @ + 1]

\* handleAof, one payload task: written to the live file (unsynced counts
\* the records written since the last fsync; the Write on a closed handle
\* fails and is only reported) and, while a rewrite is on, kept in rewriteBuf
handleAof(W) ==
    [W EXCEPT !.aof.aofChan = Tail(@),
              !.file = IF W.aof.stale THEN @ ELSE Append(@, Head(W.aof.aofChan)),
              !.aof.unsynced = IF W.aof.stale THEN @ ELSE @ + 1,
              !.aof.rewriteBuf = IF W.aof.rewriting THEN Append(@, Head(W.aof.aofChan))
                                 ELSE @]

\* aofFile.Sync()
Sync(W) == [W EXCEPT !.aof.unsynced = 0]

\* the task of Flush in aofChan; done names the caller's flushDone channel
FlushTask(done) == [flushDone |-> done]

IsFlushTask(task) == "flushDone" \in DOMAIN task

\* the payload tasks of a channel content
Payloads(chan) == SelectSeq(chan, LAMBDA task : ~IsFlushTask(task))

\* a faulty handleAof: the flush task is answered without the Sync
handleTaskNoSync(W) ==
    IF IsFlushTask(Head(W.aof.aofChan)) THEN [W EXCEPT !.aof.aofChan = Tail(@)]
    ELSE handleAof(W)

\* handleAof, one task of either kind: a payload is written, a flush task is
\* answered after the Sync
handleTask(W) ==
    IF IsFlushTask(Head(W.aof.aofChan)) THEN [Sync(W) EXCEPT !.aof.aofChan = Tail(@)]
    ELSE handleAof(W)

\* a task that its sender waits for is handled after every task queued before
RECURSIVE Barrier(_)
Barrier(W) == IF W.aof.aofChan = <<>> THEN W ELSE Barrier(handleAof(W))

\* AofHandler.StartRewrite: [W, err]
StartRewrite(W) ==
    IF W.aof.closed THEN [W |-> W, err |-> TRUE]
    ELSE LET W1 == Barrier(W)
         IN IF W1.aof.rewriting THEN [W |-> W1, err |-> TRUE]
            ELSE [W |-> [W1 EXCEPT !.aof.rewriting = TRUE, !.aof.rewriteBuf = <<>>],
                  err |-> FALSE]

\* AofHandler.AbortRewrite
AbortRewrite(W) ==
    IF W.aof.closed THEN W
    ELSE [Barrier(W) EXCEPT !.aof.rewriting = FALSE, !.aof.rewriteBuf = <<>>]

\* AofHandler.finishRewrite: the buffer goes after tmp (fault "append": the
\* open, a Write, the Sync or the Close of tmp fails), the live file is
\* synced, closed and removed, and tmp is renamed to it.  When the Rename
\* fails the live path is opened again with O_CREATE: with the old content
\* when the Remove had failed too (fault "replace"), empty when the Remove
\* had succeeded (fault "rename").  When the open after the Rename fails
\* (fault "reopen") aofFile stays the closed handle.  A failure leaves
\* rewriting and rewriteBuf as they were.
finishRewrite(W, tmp) ==
    IF ~W.aof.rewriting \/ W.fault = "append" THEN [W |-> W, err |-> TRUE]
    ELSE IF W.fault = "replace" THEN [W |-> [W EXCEPT !.aof.unsynced = 0], err |-> TRUE]
    ELSE IF W.fault = "rename"
    THEN [W |-> [W EXCEPT !.file = <<>>, !.aof.unsynced = 0], err |-> TRUE]
    ELSE IF W.fault = "reopen"
    THEN [W |-> [W EXCEPT !.file = tmp \o W.aof.rewriteBuf, !.aof.unsynced = 0,
                          !.aof.stale = TRUE],
          err |-> TRUE]
    ELSE [W |-> [W EXCEPT !.file = tmp \o W.aof.rewriteBuf, !.aof.unsynced = 0,
                          !.aof.rewriting = FALSE, !.aof.rewriteBuf = <<>>],
          err |-> FALSE]

\* AofHandler.FinishRewrite: [W, err]
FinishRewrite(W, tmp) ==
    IF W.aof.closed THEN [W |-> W, err |-> TRUE] ELSE finishRewrite(Barrier(W), tmp)

\* AofHandler.Flush
Flush(W) == IF W.aof.closed THEN W ELSE Sync(Barrier(W))

\* a faulty AofHandler.Close: the channel is closed and what is queued is
\* dropped
AofCloseDropping(W) ==
    IF W.aof.closed THEN W ELSE [W EXCEPT !.aof.closed = TRUE, !.aof.aofChan = <<>>]

\* AofHandler.Close: the channel is closed, handleAof drains it and returns
AofClose(W) ==
    IF W.aof.closed THEN W ELSE [Sync(Barrier(W)) EXCEPT !.aof.closed = TRUE]

---------------------------------------------------------------------------
(* Snapshots (snapshotEntries, applySnapshot) and the snapshot file (rdb)   *)

Entry(key, v, ms) ==
    [Key |-> key, Type |-> v.type, ExpireAtUnixMs |-> ms, String |-> v.str,
     List |-> v.list, Hash |-> v.hash, Set |-> SortStrings(v.set)]

RECURSIVE removeKeys(_, _)
removeKeys(D, S) ==
    IF S = {} THEN D
    ELSE LET k == CHOOSE x \in S : TRUE IN removeKeys(Remove(D, k), S \ {k})

\* purgeExpiredAll: cache.Remove of every key whose instant is not in the future
purgeExpiredAll(D, t) == removeKeys(D, {k \in DOMAIN D.ttl : ~(t < D.ttl[k])})

\* snapshotEntries: [D, entries], the entries in key order
snapshotEntries(D, t) ==
    LET D1 == purgeExpiredAll(D, t)
        keep == {k \in DOMAIN D1.vals : k \in DOMAIN D1.ttl => t < D1.ttl[k]}
        keys == SortStrings(keep)
    IN [D |-> D1,
        entries |-> [i \in 1..Len(keys) |->
            Entry(keys[i], D1.vals[keys[i]],
                  IF keys[i] \in DOMAIN D1.ttl THEN UnixMilli(D1.ttl[keys[i]]) ELSE 0)]]

EntryValue(e) ==
    CASE e.Type = "string" -> StringData(e.String)
      [] e.Type = "list" -> ListData(e.List)
      [] e.Type = "hash" -> HashData(e.Hash)
      [] e.Type = "set" -> SetData(Range(e.Set))

\* the loop of applySnapshot over the entries
RECURSIVE applyEntries(_, _, _)
applyEntries(D, entries, nowMs) ==
    IF entries = <<>> \/ D.hung THEN D
    ELSE LET e == Head(entries)
             D1 == Add(D, e.Key, EntryValue(e))
         IN IF e.ExpireAtUnixMs > 0 /\ e.ExpireAtUnixMs <= nowMs
            THEN applyEntries(D, Tail(entries), nowMs)
            ELSE applyEntries(
                     IF e.ExpireAtUnixMs > 0 /\ ~D1.hung
                     THEN [D1 EXCEPT !.ttl = Put(@, e.Key, TimeOfMilli(e.ExpireAtUnixMs))]
                     ELSE D1,
                     Tail(entries), nowMs)

applySnapshot(D, entries, t) ==
    applyEntries([removeKeys(D, DOMAIN D.vals) EXCEPT !.ttl = <<>>], entries, UnixMilli(t))

RECURSIVE PairsHash(_)
PairsHash(ps) ==
    IF ps = <<>> THEN <<>> ELSE Put(PairsHash(SubSeq(ps, 3, Len(ps))), ps[1], ps[2])

\* rdb.Save at the instant t: after the magic header the time of creation in
\* milliseconds, then type, key, expireAt and the payload of each entry; a
\* hash is written as its pairs in field order, a set as its members in
\* order
rdbSave(entries, t) ==
    [createdAt |-> UnixMilli(t),
     records |->
        [i \in 1..Len(entries) |->
            [typ |-> entries[i].Type, key |-> entries[i].Key,
             expireAt |-> entries[i].ExpireAtUnixMs, bytes |-> entries[i].String,
             items |-> CASE entries[i].Type = "list" -> entries[i].List
                         [] entries[i].Type = "hash" ->
                                HashPairs(entries[i].Hash, SortStrings(DOMAIN entries[i].Hash))
                         [] entries[i].Type = "set" -> SortStrings(Range(entries[i].Set))
                         [] OTHER -> <<>>]]]

\* LoadFromReader on the records of a file (createdAt is read and dropped)
rdbRecords(recs) ==
    [i \in 1..Len(recs) |->
        [Key |-> recs[i].key, Type |-> recs[i].typ, ExpireAtUnixMs |-> recs[i].expireAt,
         String |-> recs[i].bytes,
         List |-> IF recs[i].typ = "list" THEN recs[i].items ELSE <<>>,
         Hash |-> IF recs[i].typ = "hash" THEN PairsHash(recs[i].items) ELSE <<>>,
         Set |-> IF recs[i].typ = "set" THEN recs[i].items ELSE <<>>]]

\* rdb.Load
rdbLoad(file) == rdbRecords(file.records)

---------------------------------------------------------------------------
(* Log rewrite (REWRITEAOF, BGREWRITEAOF) *)

\* the consecutive pieces of at most n elements of s
RECURSIVE Chunks(_, _)
Chunks(s, n) ==
    IF s = <<>> THEN <<>>
    ELSE IF Len(s) <= n THEN <<s>>
    ELSE <<SubSeq(s, 1, n)>> \o Chunks(SubSeq(s, n + 1, Len(s)), n)

snapshotEntryToCommands(e) ==
    LET body ==
          CASE e.Type = "string" -> <<Cmd("SET", e.Key, <<e.String>>, <<>>)>>
            [] e.Type = "list" ->
                 LET c == Chunks(e.List, batch)
                 IN [i \in 1..Len(c) |-> Cmd("RPUSH", e.Key, c[i], <<>>)]
            [] e.Type = "hash" ->
                 LET c == Chunks(HashPairs(e.Hash, SortStrings(DOMAIN e.Hash)), batch * 2)
                 IN [i \in 1..Len(c) |-> Cmd("HSET", e.Key, c[i], <<>>)]
            [] e.Type = "set" ->
                 LET c == Chunks(SortStrings(Range(e.Set)), batch)
                 IN [i \in 1..Len(c) |-> Cmd("SADD", e.Key, c[i], <<>>)]
    IN IF e.ExpireAtUnixMs > 0
       THEN Append(body, Cmd("PEXPIREAT", e.Key, <<>>, FormatInt(e.ExpireAtUnixMs)))
       ELSE body

\* writeAofFromSnapshot: the content of the tmp file (entries are in key order)
RECURSIVE writeAofFromSnapshot(_)
writeAofFromSnapshot(entries) ==
    IF entries = <<>> THEN <<>>
    ELSE snapshotEntryToCommands(Head(entries)) \o writeAofFromSnapshot(Tail(entries))

IdleWorker == [state |-> "idle", entries |-> <<>>, tmp |-> <<>>, err |-> FALSE]

\* rewriteaof: [W, res]
rewriteaof(W, t) ==
    LET st == StartRewrite(W)
        sn == snapshotEntries(st.W.db, t)
        fin == FinishRewrite([st.W EXCEPT !.db = sn.D], writeAofFromSnapshot(sn.entries))
    IN IF ~W.aof.enabled THEN [W |-> W, res |-> MakeErrReply("ERR aof is disabled")]
       ELSE IF W.db.rewriting
       THEN [W |-> W, res |-> MakeErrReply("ERR rewriting already in progress")]
       ELSE IF st.err THEN [W |-> st.W, res |-> MakeErrReply("ERR start rewrite failed")]
       ELSE IF W.fault = "write"
       THEN [W |-> AbortRewrite([st.W EXCEPT !.db = sn.D]),
             res |-> MakeErrReply("ERR rewrite write failed")]
       ELSE IF fin.err
       THEN [W |-> AbortRewrite(fin.W), res |-> MakeErrReply("ERR rewrite finish failed")]
       ELSE [W |-> fin.W, res |-> OkReply]

\* a bgrewriteaof that does not look at db.aofRewriting: StartRewrite fails
\* in a rewrite, and that branch clears db.aofRewriting
bgrewriteaofUnguarded(W, t) ==
    LET st == StartRewrite(W)
        sn == snapshotEntries(st.W.db, t)
    IN IF ~W.aof.enabled THEN [W |-> W, res |-> MakeErrReply("ERR aof is disabled")]
       ELSE IF st.err
       THEN [W |-> [st.W EXCEPT !.db.rewriting = FALSE],
             res |-> MakeErrReply("ERR start rewrite failed")]
       ELSE [W |-> [st.W EXCEPT !.db = [sn.D EXCEPT !.rewriting = TRUE],
                                !.rw = [state |-> "writing", entries |-> sn.entries,
                                        tmp |-> <<>>, err |-> FALSE]],
             res |-> MakeStatusReply("Background append only file rewriting started")]

\* bgrewriteaof: [W, res]; the worker is started with the snapshot
bgrewriteaof(W, t) ==
    LET st == StartRewrite(W)
        sn == snapshotEntries(st.W.db, t)
    IN IF ~W.aof.enabled THEN [W |-> W, res |-> MakeErrReply("ERR aof is disabled")]
       ELSE IF W.db.rewriting
       THEN [W |-> W, res |-> MakeErrReply("ERR rewriting already in progress")]
       ELSE IF st.err THEN [W |-> st.W, res |-> MakeErrReply("ERR start rewrite failed")]
       ELSE [W |-> [st.W EXCEPT !.db = [sn.D EXCEPT !.rewriting = TRUE],
                                !.rw = [state |-> "writing", entries |-> sn.entries,
                                        tmp |-> <<>>, err |-> FALSE]],
             res |-> MakeStatusReply("Background append only file rewriting started")]

\* a handleAofRewriteDone that leaves db.aofRewriting set when the worker
\* has failed
handleAofRewriteDoneKeepsFlag(W) ==
    LET fin == FinishRewrite(W, W.rw.tmp)
        idle == [W EXCEPT !.rw = IdleWorker]
    IN IF ~W.db.rewriting \/ ~W.aof.enabled THEN idle
       ELSE IF W.rw.err THEN AbortRewrite(idle)
       ELSE IF fin.err
       THEN [AbortRewrite([fin.W EXCEPT !.rw = IdleWorker]) EXCEPT !.db.rewriting = FALSE]
       ELSE [fin.W EXCEPT !.rw = IdleWorker, !.db.rewriting = FALSE]

\* handleAofRewriteDone, with the result the worker left in aofRewriteDone
handleAofRewriteDone(W) ==
    LET fin == FinishRewrite(W, W.rw.tmp)
        idle == [W EXCEPT !.rw = IdleWorker]
    IN IF ~W.db.rewriting \/ ~W.aof.enabled THEN idle
       ELSE IF W.rw.err
       THEN [AbortRewrite(idle) EXCEPT !.db.rewriting = FALSE]
       ELSE IF fin.err
       THEN [AbortRewrite([fin.W EXCEPT !.rw = IdleWorker]) EXCEPT !.db.rewriting = FALSE]
       ELSE [fin.W EXCEPT !.rw = IdleWorker, !.db.rewriting = FALSE]

\* save: [W, res]
save(W, t) ==
    LET sn == snapshotEntries(W.db, t)
    IN IF ~W.rdbOn THEN [W |-> W, res |-> MakeErrReply("ERR rdb is disabled")]
       ELSE [W |-> [W EXCEPT !.db = sn.D, !.rdb = <<rdbSave(sn.entries, t)>>], res |-> OkReply]

---------------------------------------------------------------------------
(* The executor (background, execInternal, appendAof, activeExpire) *)

\* strings.ToLower of a command name
ToLower(name) ==
    CASE name = "SET" -> "set" [] name = "DEL" -> "del" [] name = "RPUSH" -> "rpush"
      [] name = "HSET" -> "hset" [] name = "SADD" -> "sadd"
      [] name = "PEXPIREAT" -> "pexpireat" [] OTHER -> name

isError(res) == res.kind = "error"

writeCommands ==
    {"set", "del", "lpush", "rpush", "lpop", "rpop", "hset", "hdel", "sadd", "srem",
     "pexpireat"}

isWriteCommand(cmd) == ToLower(cmd.name) \in writeCommands

\* execInternal, the commands that work on the cache and the TTL table:
\* [D, res]
execCommand(D, cmd, t, on, name) ==
    CASE name = "ping" -> R(D, MakeStatusReply("PONG"))
      [] name = "set" -> set(D, cmd, t)
      [] name = "get" -> get(D, cmd, t)
      [] name = "del" -> del(D, cmd, t)
      [] name = "lpush" -> lpush(D, cmd, t)
      [] name = "rpush" -> rpush(D, cmd, t)
      [] name = "lpop" -> lpop(D, cmd, t)
      [] name = "rpop" -> rpop(D, cmd, t)
      [] name = "llen" -> llen(D, cmd, t)
      [] name = "lrange" -> lrange(D, cmd, t)
      [] name = "hset" -> hset(D, cmd, t, on)
      [] name = "hget" -> hget(D, cmd, t, on)
      [] name = "hgetall" -> hgetall(D, cmd, t, on)
      [] name = "hdel" -> hdel(D, cmd, t, on)
      [] name = "sadd" -> sadd(D, cmd, t)
      [] name = "srem" -> srem(D, cmd, t)
      [] name = "scard" -> scard(D, cmd, t)
      [] name = "smembers" -> smembers(D, cmd, t)
      [] name = "expire" -> expire(D, cmd, t)
      [] name = "pexpireat" -> pexpireat(D, cmd, t)
      [] name = "ttl" -> ttl(D, cmd, t)
      [] name = "persist" -> persist(D, cmd, t)
      [] OTHER -> R(D, MakeErrReply("ERR unknown command"))

\* the world after a command that left the database r.D and answered r.res
Answered(W, r) == [W |-> [W EXCEPT !.db = r.D], res |-> r.res]

\* execInternal: [W, res]
execInternal(W, cmd, t) ==
    LET name == ToLower(cmd.name)
    IN CASE name = "save" -> save(W, t)
         [] name = "rewriteaof" -> rewriteaof(W, t)
         [] name = "bgrewriteaof" -> bgrewriteaof(W, t)
         [] OTHER -> Answered(W, execCommand(W.db, cmd, t, W.aof.enabled, name))

\* a faulty appendAof: a successful EXPIRE is logged as it was received
appendAofVerbatim(D, cmd, res) ==
    IF ToLower(cmd.name) \in {"expire", "persist"}
    THEN IF res.kind # "int" \/ res.n # 1 THEN <<>> ELSE <<cmd>>
    ELSE IF isWriteCommand(cmd) THEN <<cmd>> ELSE <<>>

\* appendAof: the frames passed to AddAof for cmd answered by res
appendAof(D, cmd, res) ==
    LET name == ToLower(cmd.name)
    IN CASE name = "expire" ->
              IF res.kind # "int" \/ res.n # 1 \/ Argc(cmd) < 2 THEN <<>>
              ELSE IF cmd.key \in DOMAIN D.ttl
              THEN <<Cmd("PEXPIREAT", cmd.key, <<>>, FormatInt(UnixMilli(D.ttl[cmd.key])))>>
              ELSE <<Cmd("DEL", cmd.key, <<>>, <<>>)>>
         [] name = "persist" ->
              IF res.kind # "int" \/ res.n # 1 THEN <<>> ELSE <<cmd>>
         [] OTHER -> IF isWriteCommand(cmd) THEN <<cmd>> ELSE <<>>

Request(cmd) == [cmd |-> cmd, fn |-> "", entries |-> <<>>, noAof |-> FALSE]
ReplayRequest(cmd) == [cmd |-> cmd, fn |-> "", entries |-> <<>>, noAof |-> TRUE]
SnapshotRequest(entries) ==
    [cmd |-> Cmd("", "", <<>>, <<>>), fn |-> "applySnapshot", entries |-> entries,
     noAof |-> TRUE]

DelFrames(keys) == [i \in 1..Len(keys) |-> Cmd("DEL", keys[i], <<>>, <<>>)]

\* background, case req := <-db.ops, the request itself: req.fn or
\* execInternal(req.cmd), on the world W0 whose evictedKeys are cleared
runRequest(W0, req, t) ==
    IF req.fn = "applySnapshot"
    THEN [W |-> [W0 EXCEPT !.db = applySnapshot(W0.db, req.entries, t)], res |-> OkReply]
    ELSE execInternal(W0, req.cmd, t)

\* background, after the request: appendAof and one DEL per evicted key,
\* unless noAof, no append log, or an error reply
logRequest(enabled, req, r) ==
    IF ~req.noAof /\ enabled /\ ~isError(r.res) /\ ~r.W.db.hung
    THEN appendAof(r.W.db, req.cmd, r.res) \o DelFrames(r.W.db.ev)
    ELSE <<>>

\* the step's result [W, res, ev, frames]; frames are the frames passed to
\* AddAof in this step, in order
Served(closed, r, logged) ==
    [W |-> AddAofAll(AddAofAll(r.W, r.W.db.emit), logged), res |-> r.res,
     ev |-> r.W.db.ev, frames |-> IF closed THEN <<>> ELSE r.W.db.emit \o logged]

logAndServe(W, req, r) == Served(W.aof.closed, r, logRequest(W.aof.enabled, req, r))

\* background, case req := <-db.ops: [W, res, ev, frames]
Serve(W, req, t) ==
    logAndServe(W, req, runRequest([W EXCEPT !.db.ev = <<>>, !.db.emit = <<>>], req, t))

\* activeExpire over the sample S of the keys of ttlMap
activeExpire(D, S, t) == removeKeys(D, {k \in S : t > D.ttl[k]})

\* the samples activeExpire can draw: sampleSize keys of ttlMap, or all of them
Samples(D) ==
    IF Cardinality(DOMAIN D.ttl) <= sampleSize THEN {DOMAIN D.ttl}
    ELSE {S \in SUBSET DOMAIN D.ttl : Cardinality(S) = sampleSize}

\* what clients can observe of D at t: the keys that are stored and not
\* past-due, their values and their expirations in Unix milliseconds (0: none)
Visible(D, t) ==
    [k \in {x \in DOMAIN D.vals : ~Expired(D, x, t)} |->
        [value |-> D.vals[k],
         exp |-> IF k \in DOMAIN D.ttl THEN UnixMilli(D.ttl[k]) ELSE 0]]

\* the sum over the stored entries of len(key) + value.Len()
RECURSIVE SumSizes(_, _)
SumSizes(D, S) ==
    IF S = {} THEN 0
    ELSE LET k == CHOOSE x \in S : TRUE
         IN BLen(k) + ValueLen(D.vals[k]) + SumSizes(D, S \ {k})

---------------------------------------------------------------------------
(* The state machine *)

World ==
    [db |-> db, aof |-> aof, file |-> aofFile, rdb |-> rdbFile, rw |-> rw,
     rdbOn |-> scn.rdbOn, fault |-> scn.fault]

Becomes(W) ==
    /\ db' = W.db
    /\ aof' = W.aof
    /\ aofFile' = W.file
    /\ rdbFile' = W.rdb
    /\ rw' = W.rw

\* NewStandaloneDBWithConfig: MaxBytes <= 0 stands for DefaultMaxBytes
NewStandaloneDBWithConfig(policy, maxBytes) ==
    NewDB(policy, IF maxBytes <= 0 THEN DefaultMaxBytes ELSE maxBytes)

NoStep ==
    [op |-> "none", cmd |-> Cmd("", "", <<>>, <<>>), res |-> NoReply, ev |-> <<>>,
     frames |-> <<>>, due |-> FALSE, stored |-> FALSE, ttl0 |-> 0]

\* History: ncmds, advances, restarts count what the bounds limit; last is
\* the last executor step; atClose is what was visible when Close returned;
\* sameCfg: every restart so far used the first configuration; fresh: Load
\* has returned and nothing has been executed since; evicted: the keys
\* evicted by byte pressure (in this process or an earlier one) and not
\* stored since; evLoad: those evicted during the current Load; acked: the
\* write commands answered without error; drained: one of them was executed
\* by the drain loop; rw: the rewrite in progress (base: the reconstruction
\* commands of its snapshot, accepted: the frames passed to AddAof since
\* start-rewrite, window: how many of them before the installer ran);
\* rewrote: a REWRITEAOF has returned OK; flushes: the calls of Flush, each
\* with the records passed to AddAof before it (want) and whether it has
\* returned (done); trip: the two files of a snapshot round trip; used: the
\* keys a cache on its own stores, the one added or accessed longest ago
\* first.
NoHistory ==
    [ncmds |-> 0, advances |-> 0, restarts |-> 0, last |-> NoStep, atClose |-> <<>>,
     sameCfg |-> TRUE, fresh |-> FALSE, evicted |-> {}, evLoad |-> {}, acked |-> <<>>,
     drained |-> FALSE,
     rw |-> [base |-> <<>>, accepted |-> <<>>, active |-> FALSE, installed |-> FALSE,
             window |-> 0],
     rewrote |-> FALSE, flushes |-> <<>>,
     trip |-> [done |-> FALSE, first |-> <<>>, second |-> <<>>],
     used |-> <<>>]

\* the history after the executor step s of cmd; op is "cmd", "replay" or
\* "snapshot"; last.due: the key of cmd was stored with a TTL in the past
\* when the step began, last.stored: it was stored, last.ttl0: its expiration
\* then (0: none)
StepHistory(s, cmd, op) ==
    LET name == ToLower(cmd.name)
        ok == ~isError(s.res) /\ ~s.W.db.hung
        live == op = "cmd"
    IN [hist EXCEPT
          !.last = [op |-> op, cmd |-> cmd, res |-> s.res, ev |-> s.ev, frames |-> s.frames,
                    due |-> /\ cmd.key \in DOMAIN db.vals
                            /\ cmd.key \in DOMAIN db.ttl
                            /\ now > db.ttl[cmd.key],
                    stored |-> cmd.key \in DOMAIN db.vals,
                    ttl0 |-> IF cmd.key \in DOMAIN db.ttl THEN db.ttl[cmd.key] ELSE 0],
          !.fresh = FALSE,
          !.evicted = IF live
                      THEN (@ \cup hist.evLoad \cup Range(s.ev)) \ DOMAIN s.W.db.vals
                      ELSE @,
          !.evLoad = IF live THEN {} ELSE (@ \cup Range(s.ev)) \ DOMAIN s.W.db.vals,
          !.acked = IF live /\ ok /\ isWriteCommand(cmd) THEN Append(@, cmd) ELSE @,
          !.drained = @ \/ (live /\ ok /\ isWriteCommand(cmd) /\ bgState = "drain"),
          !.rw = IF live /\ ok /\ name = "bgrewriteaof"
                 THEN [base |-> writeAofFromSnapshot(s.W.rw.entries), accepted |-> <<>>,
                       active |-> TRUE, installed |-> FALSE, window |-> 0]
                 ELSE IF live /\ ok /\ name = "rewriteaof"
                 THEN [@ EXCEPT !.active = FALSE, !.installed = FALSE]
                 ELSE IF @.active \/ @.installed
                 THEN [@ EXCEPT !.accepted = @ \o s.frames]
                 ELSE @,
          !.rewrote = @ \/ (live /\ ok /\ name = "rewriteaof")]

\* the executor's step s of cmd becomes the state; aofChan has room for the
\* frames of the step (AddAof blocks on a full channel)
Executed(s, cmd, op) ==
    /\ aof.aofChan = <<>> \/ Len(s.W.aof.aofChan) <= MaxAofChan
    /\ Becomes(s.W)
    /\ hist' = StepHistory(s, cmd, op)

\* The calls of Exec by clients.  pc: "idle" (not called), "send" (past the
\* first select), "wait" (the request is in db.ops), "blocked" (in the last
\* select with no case ready), "done"; late: db.closing was closed when Exec
\* was called; result: the buffered channel req.result; since: when the
\* timer of the last select was started; res: what Exec returned
ErrServerClosed == MakeErrReply("ERR server closed")
ErrTimeout == MakeErrReply("ERR timeout")
ExecTimeout == 5 * MsPerSec * TicksPerMs

NoExecs ==
    [i \in 1..MaxClients |->
        [pc |-> "idle", cmd |-> Cmd("", "", <<>>, <<>>), late |-> FALSE, result |-> <<>>,
         since |-> 0, res |-> NullBulkReply]]

CallRequest(i, cmd) ==
    [cmd |-> cmd, fn |-> "", entries |-> <<>>, noAof |-> FALSE, id |-> i]

\* req.result <- res
Delivered(req, res) ==
    IF "id" \in DOMAIN req THEN [execs EXCEPT ![req.id].result = <<res>>] ELSE execs

Returns(i, res) == [execs EXCEPT ![i].pc = "done", ![i].res = res]

\* an Exec without the first select
ExecBeginUnchecked(i, cmd) ==
    /\ phase \in {"serve", "closed"}
    /\ execs[i].pc = "idle"
    /\ execs' = [execs EXCEPT ![i].pc = "send", ![i].cmd = cmd, ![i].late = closing]
    /\ UNCHANGED <<db, now, ops, closing, bgState, aof, aofFile, rdbFile, rw, phase, loadPos,
                   hist, scn, saving, closers, conn, srv, clusterVars>>

\* Exec, the first select: case <-db.closing returns, default goes on
ExecBegin(i, cmd) ==
    /\ phase \in {"serve", "closed"}
    /\ execs[i].pc = "idle"
    /\ execs' = [(IF closing THEN Returns(i, ErrServerClosed)
                  ELSE [execs EXCEPT ![i].pc = "send"])
                 EXCEPT ![i].cmd = cmd, ![i].late = closing]
    /\ UNCHANGED <<db, now, ops, closing, bgState, aof, aofFile, rdbFile, rw, phase, loadPos,
                   hist, scn, saving, closers, conn, srv, clusterVars>>

\* Exec, the second select: case <-db.closing, case db.ops <- req
ExecSend(i) ==
    /\ execs[i].pc = "send"
    /\ \/ /\ closing
          /\ execs' = Returns(i, ErrServerClosed)
          /\ ops' = ops
       \/ /\ Len(ops) < MaxOps
          /\ ops' = Append(ops, CallRequest(i, execs[i].cmd))
          /\ execs' = [execs EXCEPT ![i].pc = "wait"]
    /\ UNCHANGED <<db, now, closing, bgState, aof, aofFile, rdbFile, rw, phase, loadPos,
                   hist, scn, saving, closers, conn, srv, clusterVars>>

\* Exec, the last select is entered: a ready case is taken, or the timer is
\* started and the goroutine blocks
ExecWait(i) ==
    /\ execs[i].pc = "wait"
    /\ \/ /\ execs[i].result # <<>>
          /\ execs' = Returns(i, execs[i].result[1])
       \/ /\ closing
          /\ execs' = Returns(i, ErrServerClosed)
       \/ /\ execs[i].result = <<>>
          /\ ~closing
          /\ execs' = [execs EXCEPT ![i].pc = "blocked", ![i].since = now]
    /\ UNCHANGED <<db, now, ops, closing, bgState, aof, aofFile, rdbFile, rw, phase, loadPos,
                   hist, scn, saving, closers, conn, srv, clusterVars>>

\* Exec, the last select wakes: case res := <-req.result, case <-db.closing,
\* case <-time.After(5 * time.Second)
ExecWake(i) ==
    /\ execs[i].pc = "blocked"
    /\ \/ /\ execs[i].result # <<>>
          /\ execs' = Returns(i, execs[i].result[1])
       \/ /\ closing
          /\ execs' = Returns(i, ErrServerClosed)
       \/ /\ now >= execs[i].since + ExecTimeout
          /\ execs' = Returns(i, ErrTimeout)
    /\ UNCHANGED <<db, now, ops, closing, bgState, aof, aofFile, rdbFile, rw, phase, loadPos,
                   hist, scn, saving, closers, conn, srv, clusterVars>>

\* Exec: a client submits cmd to db.ops
Exec(cmd) ==
    /\ phase = "serve"
    /\ bgState \in {"run", "drain"}
    /\ Len(ops) < MaxOps
    /\ hist.ncmds < MaxCmds
    /\ ops' = Append(ops, Request(cmd))
    /\ hist' = [hist EXCEPT !.ncmds = @ + 1]
    /\ UNCHANGED <<db, now, closing, bgState, aof, aofFile, rdbFile, rw, phase, loadPos, scn, saving, closers, execs, conn, srv, clusterVars>>

\* background, case req := <-db.ops (in the main loop or in the drain loop)
Background ==
    /\ phase = "serve"
    /\ bgState \in {"run", "drain"}
    /\ ops # <<>>
    /\ ~db.hung
    /\ Executed(Serve(World, Head(ops), now), Head(ops).cmd, "cmd")
    /\ ops' = Tail(ops)
    /\ execs' = IF db'.hung THEN execs ELSE Delivered(Head(ops), hist'.last.res)
    /\ UNCHANGED <<now, closing, bgState, phase, loadPos, scn, saving, closers, conn, srv, clusterVars>>

\* no Save is running and no tmp file exists.  pc: the step of rdb.Save the
\* executor is at; tmp: the tmp file ("none", "partial", "complete");
\* entries: the snapshot being saved; prev: the live file when the Save
\* began; failed: a step of it failed; res: the reply of the last SAVE;
\* rdbSaving: the flag of bgsave; wpc: the step of rdb.Save the goroutine of
\* bgsave is at; wentries: its snapshot; bgres: the reply of the last BGSAVE
\* and bgBusy: whether rdbSaving was set when it was executed
NoSave ==
    [pc |-> "idle", tmp |-> "none", entries |-> <<>>, prev |-> <<>>, failed |-> FALSE,
     res |-> NoReply, rdbSaving |-> FALSE, wpc |-> "idle", wentries |-> <<>>,
     bgres |-> NoReply, bgBusy |-> FALSE]

\* rdb.Save returns err (or nil) and save answers
SaveReturns(sv, failed) ==
    [sv EXCEPT !.pc = "idle", !.failed = failed,
               !.res = IF failed THEN MakeErrReply("ERR rdb save failed") ELSE OkReply]

\* background takes a SAVE from db.ops: save takes the snapshot and calls
\* rdb.Save
SaveBegin ==
    /\ phase = "serve"
    /\ bgState \in {"run", "drain"}
    /\ ops # <<>>
    /\ ToLower(Head(ops).cmd.name) = "save"
    /\ scn.rdbOn
    /\ saving.pc = "idle"
    /\ ~db.hung
    /\ ops' = Tail(ops)
    /\ db' = snapshotEntries(db, now).D
    /\ saving' = [saving EXCEPT !.pc = "open", !.entries = snapshotEntries(db, now).entries,
                                !.prev = rdbFile, !.failed = FALSE, !.res = NoReply]
    /\ UNCHANGED <<now, closing, bgState, aof, aofFile, rdbFile, rw, phase, loadPos, hist, scn,
                   closers, execs, conn, srv, clusterVars>>

\* rdb.Save: os.OpenFile(tmp, O_CREATE|O_TRUNC|O_WRONLY)
SaveOpen ==
    /\ saving.pc = "open"
    /\ \E fail \in BOOLEAN :
          saving' = IF fail THEN SaveReturns(saving, TRUE)
                    ELSE [saving EXCEPT !.pc = "write", !.tmp = "partial"]
    /\ UNCHANGED <<db, now, ops, closing, bgState, aof, aofFile, rdbFile, rw, phase, loadPos,
                   hist, scn, closers, execs, conn, srv, clusterVars>>

\* rdb.Save: SaveToWriter, buf.Flush, f.Sync, f.Close; when one of them fails
\* tmp is removed
SaveWrite ==
    /\ saving.pc = "write"
    /\ \E fail \in BOOLEAN :
          saving' = IF fail THEN [SaveReturns(saving, TRUE) EXCEPT !.tmp = "none"]
                    ELSE [saving EXCEPT !.pc = "remove", !.tmp = "complete"]
    /\ UNCHANGED <<db, now, ops, closing, bgState, aof, aofFile, rdbFile, rw, phase, loadPos,
                   hist, scn, closers, execs, conn, srv, clusterVars>>

\* rdb.Save: os.Remove(filename)
SaveRemove ==
    /\ saving.pc = "remove"
    /\ rdbFile' = <<>>
    /\ saving' = [saving EXCEPT !.pc = "rename"]
    /\ UNCHANGED <<db, now, ops, closing, bgState, aof, aofFile, rw, phase, loadPos, hist,
                   scn, closers, execs, conn, srv, clusterVars>>

\* rdb.Save: return os.Rename(tmp, filename)
SaveRename ==
    /\ saving.pc = "rename"
    /\ \E fail \in BOOLEAN :
          IF fail THEN /\ saving' = SaveReturns(saving, TRUE)
                       /\ UNCHANGED rdbFile
          ELSE /\ saving' = [SaveReturns(saving, FALSE) EXCEPT !.tmp = "none"]
               /\ rdbFile' = <<rdbSave(saving.entries, now)>>
    /\ UNCHANGED <<db, now, ops, closing, bgState, aof, aofFile, rw, phase, loadPos, hist,
                   scn, closers, execs, conn, srv, clusterVars>>

\* background takes a request other than SAVE from db.ops
ServeOther ==
    /\ saving.pc = "idle"
    /\ ops # <<>>
    /\ ToLower(Head(ops).cmd.name) # "save"
    /\ Background

\* background takes a request other than SAVE and BGSAVE from db.ops
ServeData ==
    /\ ops # <<>>
    /\ ToLower(Head(ops).cmd.name) # "bgsave"
    /\ ServeOther

\* background takes a BGSAVE from db.ops: bgsave tests and sets rdbSaving,
\* takes the snapshot and starts the goroutine that calls rdb.Save
BgsaveBegin ==
    /\ phase = "serve"
    /\ bgState \in {"run", "drain"}
    /\ ops # <<>>
    /\ ToLower(Head(ops).cmd.name) = "bgsave"
    /\ scn.rdbOn
    /\ saving.pc = "idle"
    /\ ~db.hung
    /\ ops' = Tail(ops)
    /\ IF saving.rdbSaving
       THEN /\ saving' = [saving EXCEPT
                            !.bgres = MakeErrReply("ERR Background save already in progress"),
                            !.bgBusy = TRUE]
            /\ UNCHANGED db
       ELSE /\ saving' = [saving EXCEPT
                            !.rdbSaving = TRUE, !.wpc = "open",
                            !.wentries = snapshotEntries(db, now).entries,
                            !.bgres = MakeStatusReply("Background saving started"),
                            !.bgBusy = FALSE]
            /\ db' = snapshotEntries(db, now).D
    /\ UNCHANGED <<now, closing, bgState, aof, aofFile, rdbFile, rw, phase, loadPos, hist, scn,
                   closers, execs, conn, srv, clusterVars>>

\* the goroutine of bgsave, one step of rdb.Save on the same tmp file as
\* SAVE uses (open, write and close, remove the live file, rename), then
\* rdbSaving is cleared; a failing step ends the Save
BgsaveWorker ==
    /\ saving.wpc # "idle"
    /\ \E fail \in BOOLEAN :
          CASE saving.wpc = "open" ->
                 /\ saving' = IF fail THEN [saving EXCEPT !.wpc = "clear"]
                              ELSE [saving EXCEPT !.wpc = "write", !.tmp = "partial"]
                 /\ UNCHANGED rdbFile
            [] saving.wpc = "write" ->
                 /\ saving' = IF fail THEN [saving EXCEPT !.wpc = "clear", !.tmp = "none"]
                              ELSE [saving EXCEPT !.wpc = "remove", !.tmp = "complete"]
                 /\ UNCHANGED rdbFile
            [] saving.wpc = "remove" ->
                 /\ ~fail
                 /\ saving' = [saving EXCEPT !.wpc = "rename"]
                 /\ rdbFile' = <<>>
            [] saving.wpc = "rename" ->
                 IF fail \/ saving.tmp = "none"
                 THEN /\ saving' = [saving EXCEPT !.wpc = "clear"]
                      /\ UNCHANGED rdbFile
                 ELSE /\ saving' = [saving EXCEPT !.wpc = "clear", !.tmp = "none"]
                      /\ rdbFile' = <<rdbSave(saving.wentries, now)>>
            [] OTHER ->
                 /\ ~fail
                 /\ saving' = [saving EXCEPT !.wpc = "idle", !.rdbSaving = FALSE]
                 /\ UNCHANGED rdbFile
    /\ UNCHANGED <<db, now, ops, closing, bgState, aof, aofFile, rw, phase, loadPos, hist,
                   scn, closers, execs, conn, srv, clusterVars>>

\* the keyspace after the file first was applied to an empty database at the
\* instant t (a process started on the snapshot alone)
Applied(first, t) ==
    applySnapshot(NewStandaloneDBWithConfig(scn.policy, scn.maxBytes), rdbLoad(first), t)

\* the keyspace is saved, the file is applied to an empty database d1 later,
\* and that database is saved d2 after that
SnapshotTrip(d1, d2) ==
    /\ phase = "serve"
    /\ ops = <<>>
    /\ ~db.hung
    /\ ~hist.trip.done
    /\ db' = Applied(rdbSave(snapshotEntries(db, now).entries, now), now + d1)
    /\ now' = now + d1 + d2
    /\ hist' = [hist EXCEPT
                  !.trip = [done |-> TRUE,
                            first |-> rdbSave(snapshotEntries(db, now).entries, now),
                            second |-> rdbSave(snapshotEntries(db', now').entries, now')]]
    /\ UNCHANGED <<ops, closing, bgState, aof, aofFile, rdbFile, rw, phase, loadPos, scn, saving, closers, execs, conn, srv, clusterVars>>

\* The components that have a Close: the server (Shutdown), its Router, the
\* Router's PeerClient, the Router's local StandaloneDB, the AofHandler and
\* the cache of that database, and a cache of the other policy on its own.
\* For each: calls (of Close, by anyone outside), once (its guard is set:
\* closeOnce has run, closed is true, stopChan is closed), runs (how often
\* the guarded body ran), panicked.  peers: the Router's map of clients.
\* execs: the calls of Router.Exec so far; late: what the calls of Exec made
\* after a Router.Close had returned have done (clients created by peerDo,
\* connections dialled, commands forwarded, replies that are no error).
Components == {"server", "router", "peer", "db", "aof", "lru", "lfu"}

NoClosers ==
    [of |-> [c \in Components |->
                [calls |-> 0, once |-> FALSE, runs |-> 0, panicked |-> FALSE]],
     peers |-> {"peer"},
     execs |-> 0,
     late |-> [made |-> 0, dials |-> 0, forwards |-> 0, answered |-> 0, res |-> NoReply]]

\* the guarded body of a component runs
RunsOnce(C, c) == [C EXCEPT !.of[c].once = TRUE, !.of[c].runs = @ + 1]

\* Cache.Close: close(c.stopChan), which panics on a closed channel;
\* LFUCache.Close does nothing
CacheClose(C, policy) ==
    IF policy = "lfu" THEN C
    ELSE IF C.of["lru"].once THEN [C EXCEPT !.of["lru"].panicked = TRUE]
    ELSE RunsOnce(C, "lru")

\* AofHandler.Close: returns when closed is set
AofHandlerClose(C) == IF C.of["aof"].once THEN C ELSE RunsOnce(C, "aof")

\* StandaloneDB.Close: closeOnce.Do(close(closing); bgWg.Wait();
\* aofHandler.Close(); cache.Close())
DbClose(C, policy) ==
    IF C.of["db"].once THEN C
    ELSE CacheClose(AofHandlerClose(RunsOnce(C, "db")), policy)

\* PeerClient.Close: closeOnce.Do(close(closing)), then the idle connections
\* of the pool are closed
PeerClose(C) == IF C.of["peer"].once THEN C ELSE RunsOnce(C, "peer")

\* Router.Close: every client of the map is closed, the map is emptied, and
\* localDB.Close()
RouterClose(C, policy) ==
    DbClose([(IF C.peers = {} THEN C ELSE PeerClose(C)) EXCEPT
                !.of["router"].runs = @ + 1, !.peers = {}],
            policy)

\* Server.Shutdown: closeOnce.Do(close(closing); listener and connections
\* closed), the handlers are waited for, and s.Db.Close()
Shutdown(C, policy) ==
    RouterClose(IF C.of["server"].once THEN C ELSE RunsOnce(C, "server"), policy)

\* someone calls Close on the component c
CloseOf(C, c, policy) ==
    CASE c = "server" -> Shutdown(C, policy)
      [] c = "router" -> RouterClose(C, policy)
      [] c = "peer" -> PeerClose(C)
      [] c = "db" -> DbClose(C, policy)
      [] c = "aof" -> AofHandlerClose(C)
      [] c \in {"lru", "lfu"} -> CacheClose(C, c)

CallClose(c) ==
    /\ phase = "closes"
    /\ closers.of[c].calls < MaxCloses
    /\ \A d \in Components : ~closers.of[d].panicked
    /\ closers' = [CloseOf(closers, c, scn.policy) EXCEPT !.of[c].calls = @ + 1]
    /\ UNCHANGED <<db, now, ops, closing, bgState, aof, aofFile, rdbFile, rw, phase, loadPos,
                   hist, scn, saving, execs, conn, srv, clusterVars>>

\* Router.Exec of a command whose key is this node's (local) or the peer's:
\* localDB.Exec, or peerDo, which makes a PeerClient when the map has none
\* for the address, and PeerClient.Do, which refuses when that client is
\* closed and else takes a connection of the pool or dials one (dialOk),
\* writes the command and reads the peer's reply
RouterExecOn(C, local, dialOk) ==
    LET after == C.of["router"].runs > 0
        fresh == ~local /\ "peer" \notin C.peers
        C1 == IF fresh
              THEN [C EXCEPT !.peers = {"peer"},
                             !.of["peer"] = NoClosers.of["peer"]]
              ELSE C
        sent == ~local /\ ~C1.of["peer"].once /\ dialOk
        res == IF local
               THEN IF C.of["db"].once THEN ErrServerClosed ELSE OkReply
               ELSE IF C1.of["peer"].once THEN MakeErrReply("ERR cluster forward failed")
               ELSE IF dialOk THEN OkReply ELSE MakeErrReply("ERR cluster forward failed")
        Inc(b) == IF after /\ b THEN 1 ELSE 0
    IN [C1 EXCEPT !.execs = @ + 1,
                  !.late = IF after
                           THEN [made |-> @.made + Inc(fresh),
                                 dials |-> @.dials + Inc(sent),
                                 forwards |-> @.forwards + Inc(sent),
                                 answered |-> @.answered + Inc(~isError(res)),
                                 res |-> res]
                           ELSE @]

\* someone calls Exec on the Router
RouterExecCall(local, dialOk) ==
    /\ phase = "closes"
    /\ closers.execs < MaxCalls
    /\ \A d \in Components : ~closers.of[d].panicked
    /\ closers' = RouterExecOn(closers, local, dialOk)
    /\ UNCHANGED <<db, now, ops, closing, bgState, aof, aofFile, rdbFile, rw, phase, loadPos,
                   hist, scn, saving, execs, conn, srv, clusterVars>>

\* handleAof, case task := <-aofChan
HandleAof ==
    /\ phase \in {"serve", "load"}
    /\ aof.aofChan # <<>>
    /\ ~aof.closed
    /\ Becomes(handleAof(World))
    /\ UNCHANGED <<now, ops, closing, bgState, phase, loadPos, hist, scn, saving, closers, execs, conn, srv, clusterVars>>

\* Flush is called by another goroutine: its task is queued behind what
\* AddAof has queued so far
FlushCall ==
    /\ phase = "serve"
    /\ ~aof.closed
    /\ Len(hist.flushes) < MaxFlushes
    /\ Len(aof.aofChan) < MaxAofChan
    /\ aof' = [aof EXCEPT !.aofChan = Append(@, FlushTask(Len(hist.flushes) + 1))]
    /\ hist' = [hist EXCEPT !.flushes =
                   Append(@, [want |-> aofFile \o Payloads(aof.aofChan), done |-> FALSE])]
    /\ UNCHANGED <<db, now, ops, closing, bgState, aofFile, rdbFile, rw, phase, loadPos, scn, saving, closers, execs, conn, srv, clusterVars>>

\* handleAof, case task := <-aofChan, with the tasks of Flush among the
\* payloads; close(task.flushDone) lets that Flush return
HandleAofTask ==
    /\ phase = "serve"
    /\ aof.aofChan # <<>>
    /\ ~aof.closed
    /\ Becomes(handleTask(World))
    /\ hist' = IF IsFlushTask(Head(aof.aofChan))
               THEN [hist EXCEPT !.flushes[Head(aof.aofChan).flushDone].done = TRUE]
               ELSE hist
    /\ UNCHANGED <<now, ops, closing, bgState, phase, loadPos, scn, saving, closers, execs, conn, srv, clusterVars>>

\* handleAof, case <-ticker.C: the file is fsynced every second
TickerSync ==
    /\ phase = "serve"
    /\ ~aof.closed
    /\ aof.unsynced > 0
    /\ Becomes(Sync(World))
    /\ UNCHANGED <<now, ops, closing, bgState, phase, loadPos, hist, scn, saving, closers, execs, conn, srv, clusterVars>>

\* background, case <-ticker.C
ActiveExpire ==
    /\ phase \in {"serve", "load"}
    /\ bgState = "run"
    /\ ~db.hung
    /\ \E S \in Samples(db) :
          /\ activeExpire(db, S, now) # db
          /\ db' = activeExpire(db, S, now)
    /\ UNCHANGED <<now, ops, closing, bgState, aof, aofFile, rdbFile, rw, phase, loadPos,
                   hist, scn, saving, closers, execs, conn, srv, clusterVars>>

\* the clock advances by d ticks
Tick(d) ==
    /\ hist.advances < MaxAdvance
    /\ now' = now + d
    /\ hist' = [hist EXCEPT !.advances = @ + 1]
    /\ UNCHANGED <<db, ops, closing, bgState, aof, aofFile, rdbFile, rw, phase, loadPos, scn, saving, closers, execs, conn, srv, clusterVars>>

\* Close: close(db.closing); the background goroutine turns to its drain loop
Close ==
    /\ phase = "serve"
    /\ ~closing
    /\ closing' = TRUE
    /\ bgState' = IF db.hung THEN bgState ELSE "drain"
    /\ UNCHANGED <<db, now, ops, aof, aofFile, rdbFile, rw, phase, loadPos, hist, scn, saving, closers, execs, conn, srv, clusterVars>>

\* the drain loop, default: return
DrainExit ==
    /\ phase = "serve"
    /\ bgState = "drain"
    /\ ops = <<>>
    /\ rw.state # "done"
    /\ bgState' = "exited"
    /\ UNCHANGED <<db, now, ops, closing, aof, aofFile, rdbFile, rw, phase, loadPos, hist, scn, saving, closers, execs, conn, srv, clusterVars>>

\* Close after bgWg.Wait(): aofHandler.Close(), and Close returns
CloseAof ==
    /\ phase = "serve"
    /\ closing
    /\ bgState = "exited"
    /\ Becomes(AofClose(World))
    /\ phase' = "closed"
    /\ hist' = [hist EXCEPT !.atClose = Visible(db, now)]
    /\ UNCHANGED <<now, ops, closing, bgState, loadPos, scn, saving, closers, execs, conn, srv, clusterVars>>

\* a new process on the same files, with maxBytes as configured byte budget
Restart(maxBytes) ==
    /\ phase = "closed"
    /\ hist.restarts < MaxRestarts
    /\ hist.restarts < scn.restarts
    /\ db' = NewStandaloneDBWithConfig(scn.policy, maxBytes)
    /\ aof' = NewAofHandler
    /\ rw' = IdleWorker
    /\ ops' = <<>>
    /\ closing' = FALSE
    /\ bgState' = "run"
    /\ phase' = "load"
    /\ loadPos' = 0
    /\ hist' = [hist EXCEPT !.restarts = @ + 1,
                            !.sameCfg = @ /\ maxBytes = scn.maxBytes,
                            !.evicted = @ \cup hist.evLoad, !.evLoad = {},
                            !.last = NoStep, !.rw = NoHistory.rw]
    /\ UNCHANGED <<now, aofFile, rdbFile, scn, saving, closers, execs, conn, srv, clusterVars>>

\* Load: loadRdb
LoadRdb ==
    /\ phase = "load"
    /\ loadPos = 0
    /\ IF scn.rdbOn /\ rdbFile # <<>>
       THEN Executed(Serve(World, SnapshotRequest(rdbLoad(rdbFile[1])), now),
                     Cmd("", "", <<>>, <<>>), "snapshot")
       ELSE UNCHANGED <<db, aof, aofFile, rdbFile, rw, hist>>
    /\ loadPos' = 1
    /\ UNCHANGED <<now, ops, closing, bgState, phase, scn, saving, closers, execs, conn, srv, clusterVars>>

\* a frame of the log that parseLine fails on: ParseStream yields a payload
\* with Err set and ends
BadFrame == [payloadErr |-> "protocol error"]

IsBadFrame(frame) == "payloadErr" \in DOMAIN frame

\* Load: LoadAof hands the next frame of the log to the executor, noAof
LoadAof ==
    /\ phase = "load"
    /\ loadPos >= 1
    /\ loadPos <= Len(aofFile)
    /\ ~IsBadFrame(aofFile[loadPos])
    /\ ~db.hung
    /\ Executed(Serve(World, ReplayRequest(aofFile[loadPos]), now), aofFile[loadPos],
                "replay")
    /\ loadPos' = loadPos + 1
    /\ UNCHANGED <<now, ops, closing, bgState, phase, scn, saving, closers, execs, conn, srv, clusterVars>>

\* Load: LoadAof meets a frame that fails to parse and returns payload.Err;
\* Load drops the error and returns, main goes on to NewServer and Start
LoadAofError ==
    /\ phase = "load"
    /\ loadPos >= 1
    /\ loadPos <= Len(aofFile)
    /\ IsBadFrame(aofFile[loadPos])
    /\ ~db.hung
    /\ phase' = "serve"
    /\ hist' = [hist EXCEPT !.fresh = TRUE]
    /\ UNCHANGED <<db, now, ops, closing, bgState, aof, aofFile, rdbFile, rw, loadPos, scn, saving, closers, execs, conn, srv, clusterVars>>

\* Load returns at the end of the log; the server starts
LoadDone ==
    /\ phase = "load"
    /\ loadPos > Len(aofFile)
    /\ ~db.hung
    /\ phase' = "serve"
    /\ hist' = [hist EXCEPT !.fresh = TRUE]
    /\ UNCHANGED <<db, now, ops, closing, bgState, aof, aofFile, rdbFile, rw, loadPos, scn, saving, closers, execs, conn, srv, clusterVars>>

\* the goroutine of bgrewriteaof: the tmp file is written (or the write
\* fails) and the result is left in aofRewriteDone
RewriteWorker ==
    /\ phase = "serve"
    /\ rw.state = "writing"
    /\ \E failed \in BOOLEAN :
          rw' = [rw EXCEPT !.state = "done", !.err = failed,
                           !.tmp = IF failed THEN <<>> ELSE writeAofFromSnapshot(rw.entries)]
    /\ UNCHANGED <<db, now, ops, closing, bgState, aof, aofFile, rdbFile, phase, loadPos,
                   hist, scn, saving, closers, execs, conn, srv, clusterVars>>

\* background, case done := <-db.aofRewriteDone
HandleAofRewriteDone ==
    /\ phase = "serve"
    /\ bgState \in {"run", "drain"}
    /\ rw.state = "done"
    /\ ~db.hung
    /\ Becomes(handleAofRewriteDone(World))
    /\ hist' = [hist EXCEPT
                  !.rw.active = FALSE,
                  !.rw.window = Len(hist.rw.accepted),
                  !.rw.installed = hist.rw.active /\ db.rewriting /\ ~rw.err
                                   /\ ~FinishRewrite(World, rw.tmp).err]
    /\ UNCHANGED <<now, ops, closing, bgState, phase, loadPos, scn, saving, closers, execs, conn, srv, clusterVars>>

---------------------------------------------------------------------------
(* The cache on its own: Add, Get, Remove and the owner's change of a       *)
(* stored List through its pointer                                          *)

CacheKeys == {"k1", "k2", "k3"}
CacheValues == {StringData("x"), StringData("0123456789"), ListData(<<"x">>)}

\* the keys by their last use, after a use of key, and without the keys that
\* D no longer stores
Touched(used, key) == Append(SeqRemove(used, key), key)
Kept(used, D) == SelectSeq(used, LAMBDA k : k \in DOMAIN D.vals)

CacheAdd(key, value) ==
    /\ phase = "cache"
    /\ ~db.hung
    /\ hist.ncmds < MaxCacheOps
    /\ db' = Add([db EXCEPT !.ev = <<>>], key, value)
    /\ hist' = [hist EXCEPT !.ncmds = @ + 1,
                            !.last.op = IF db'.hung THEN "hung" ELSE "Add",
                            !.last.cmd = Cmd("Add", key, <<>>, <<>>),
                            !.used = Kept(Touched(@, key), db')]
    /\ UNCHANGED <<now, ops, closing, bgState, aof, aofFile, rdbFile, rw, phase, loadPos, scn, saving, closers, execs, conn, srv, clusterVars>>

CacheGet(key) ==
    /\ phase = "cache"
    /\ ~db.hung
    /\ hist.ncmds < MaxCacheOps
    /\ Has(db, key)
    /\ db' = Get(db, key)
    /\ hist' = [hist EXCEPT !.ncmds = @ + 1, !.last.op = "Get",
                            !.last.cmd = Cmd("Get", key, <<>>, <<>>),
                            !.used = Touched(@, key)]
    /\ UNCHANGED <<now, ops, closing, bgState, aof, aofFile, rdbFile, rw, phase, loadPos, scn, saving, closers, execs, conn, srv, clusterVars>>

CacheRemove(key) ==
    /\ phase = "cache"
    /\ ~db.hung
    /\ hist.ncmds < MaxCacheOps
    /\ Has(db, key)
    /\ db' = Remove(db, key)
    /\ hist' = [hist EXCEPT !.ncmds = @ + 1, !.last.op = "Remove",
                            !.last.cmd = Cmd("Remove", key, <<>>, <<>>),
                            !.used = Kept(@, db')]
    /\ UNCHANGED <<now, ops, closing, bgState, aof, aofFile, rdbFile, rw, phase, loadPos, scn, saving, closers, execs, conn, srv, clusterVars>>

\* l.PushBack on the list a stored ListData points to
CachePushBack(key) ==
    /\ phase = "cache"
    /\ ~db.hung
    /\ hist.ncmds < MaxCacheOps
    /\ Has(db, key)
    /\ db.vals[key].type = "list"
    /\ db' = InPlace(db, key, ListData(Append(db.vals[key].list, "y")))
    /\ hist' = [hist EXCEPT !.ncmds = @ + 1, !.last.op = "PushBack",
                            !.last.cmd = Cmd("PushBack", key, <<>>, <<>>)]
    /\ UNCHANGED <<now, ops, closing, bgState, aof, aofFile, rdbFile, rw, phase, loadPos, scn, saving, closers, execs, conn, srv, clusterVars>>

---------------------------------------------------------------------------
(* Scenarios: the configuration of the first process, the commands the      *)
(* clients draw from, the byte budgets a restart may be configured with,    *)
(* how many restarts there are, and the steps of the clock                  *)

Scenario(name, policy, maxBytes, cmds, restartMax, restarts, rdbOn, ticks) ==
    [name |-> name, policy |-> policy, maxBytes |-> maxBytes, cmds |-> cmds,
     restartMax |-> restartMax, restarts |-> restarts, rdbOn |-> rdbOn, ticks |-> ticks,
     fault |-> ""]

\* the scenario s on a file system that fails the step fault of a rewrite
WithFault(s, fault) == [s EXCEPT !.fault = fault]

Num(n) == FormatInt(n)

\* three strings under a budget of two, and a read that reorders them
ScnStrings(policy) ==
    Scenario("strings", policy, 24,
             {Cmd("set", "k1", <<"0123456789">>, <<>>), Cmd("set", "k2", <<"0123456789">>, <<>>),
              Cmd("set", "k3", <<"abcdefghij">>, <<>>), Cmd("get", "k1", <<>>, <<>>)},
             {24}, 1, FALSE, {})

\* restarts under a smaller and under the default byte budget
ScnBudget ==
    Scenario("budget", "lru", 0,
             {Cmd("set", "k1", <<"0123456789">>, <<>>), Cmd("set", "k2", <<"abcdefghij">>, <<>>)},
             {20, 0}, MaxRestarts, FALSE, {})

\* a list with a TTL, written again after the TTL was set, and the clock
ScnTtl ==
    Scenario("ttl", "lru", 0,
             {Cmd("rpush", "k1", <<"x">>, <<>>), Cmd("expire", "k1", <<>>, Num(1)),
              Cmd("rpush", "k1", <<"z">>, <<>>)},
             {0}, 1, FALSE, {1, TicksPerSec + 1})

\* a snapshot file, and a restart under a smaller byte budget
ScnSnapshot ==
    Scenario("snapshot", "lfu", 0,
             {Cmd("set", "k1", <<"0123456789">>, <<>>), Cmd("expire", "k1", <<>>, Num(1)),
              Cmd("save", "", <<>>, <<>>)},
             {10}, 1, TRUE, {})

\* a synchronous rewrite of the log of a list that grew in place
ScnRewrite ==
    Scenario("rewrite", "lru", 40,
             {Cmd("rpush", "k1", <<"x">>, <<>>), Cmd("rpush", "k1", <<"y">>, <<>>),
              Cmd("set", "k2", <<"0123456789">>, <<>>), Cmd("rewriteaof", "", <<>>, <<>>)},
             {40}, 1, FALSE, {})

Scenarios ==
    {ScnStrings("lru"), ScnStrings("lfu"), ScnBudget, ScnTtl, ScnSnapshot, ScnRewrite}

\* writes of every kind, queued while Close begins
ScnClose ==
    Scenario("close", "lru", 24,
             {Cmd("set", "k1", <<"0123456789">>, <<>>), Cmd("rpush", "k2", <<"x">>, <<>>),
              Cmd("sadd", "k3", <<"m1">>, <<>>), Cmd("del", "k1", <<>>, <<>>),
              Cmd("get", "k1", <<>>, <<>>)},
             {}, 0, FALSE, {})

\* writes around a background rewrite
ScnBgRewrite ==
    Scenario("bgrewrite", "lru", 0,
             {Cmd("set", "k1", <<"0123456789">>, <<>>), Cmd("hset", "k2", <<"f1", "x">>, <<>>),
              Cmd("del", "k1", <<>>, <<>>), Cmd("bgrewriteaof", "", <<>>, <<>>)},
             {}, 0, FALSE, {})

\* writes around rewrites of both kinds
ScnRewriteFails ==
    Scenario("rewritefails", "lru", 0,
             {Cmd("set", "k1", <<"aa">>, <<>>), Cmd("set", "k2", <<"bb">>, <<>>),
              Cmd("rewriteaof", "", <<>>, <<>>), Cmd("bgrewriteaof", "", <<>>, <<>>)},
             {}, 0, FALSE, {})

\* the steps of a rewrite that the file system may fail
RewriteFaults == {"", "write", "append", "replace", "rename", "reopen"}

\* writes between snapshots
ScnSave ==
    Scenario("save", "lru", 0,
             {Cmd("set", "k1", <<"aa">>, <<>>), Cmd("set", "k2", <<"bb">>, <<>>),
              Cmd("save", "", <<>>, <<>>)},
             {}, 0, TRUE, {})

\* reads and a write after a start on a damaged log
ScnLoad ==
    Scenario("load", "lru", 0,
             {Cmd("set", "k1", <<"cc">>, <<>>), Cmd("get", "k1", <<>>, <<>>),
              Cmd("get", "k2", <<>>, <<>>)},
             {}, 0, FALSE, {})

\* the logs a process may find: two writes, and a frame that does not parse
\* before, between or after them, or nowhere
DamagedLogs ==
    LET a == Cmd("SET", "k1", <<"aa">>, <<>>)
        b == Cmd("SET", "k2", <<"bb">>, <<>>)
    IN {<<a, b>>, <<BadFrame, a, b>>, <<a, BadFrame, b>>, <<a, b, BadFrame>>}

\* values of every type, one of them with a TTL
ScnTrip ==
    Scenario("trip", "lru", 0,
             {Cmd("set", "k1", <<"aa">>, <<>>), Cmd("rpush", "k2", <<"x", "y">>, <<>>),
              Cmd("hset", "k3", <<"f2", "x", "f1", "y">>, <<>>),
              Cmd("sadd", "k4", <<"m2", "m1">>, <<>>), Cmd("expire", "k1", <<>>, Num(1))},
             {}, 0, TRUE, {1})

\* writes and a read while another goroutine calls Flush
ScnFlush ==
    Scenario("flush", "lru", 0,
             {Cmd("SET", "k1", <<"aa">>, <<>>), Cmd("SET", "k2", <<"bb">>, <<>>),
              Cmd("get", "k1", <<>>, <<>>)},
             {}, 0, FALSE, {})

\* a value of each variant with a TTL, the clock, and the reads of the variant
ScnReads(type) ==
    Scenario("reads", "lru", 0,
             {Cmd("expire", "k1", <<>>, Num(1))} \cup
             CASE type = "string" ->
                    {Cmd("set", "k1", <<"aa">>, <<>>), Cmd("get", "k1", <<>>, <<>>)}
               [] type = "list" ->
                    {Cmd("rpush", "k1", <<"x">>, <<>>), Cmd("llen", "k1", <<>>, <<>>),
                     Cmd("lrange", "k1", <<Num(0), FormatInt(-1)>>, <<>>)}
               [] type = "hash" ->
                    {Cmd("hset", "k1", <<"f1", "x">>, <<>>), Cmd("hget", "k1", <<"f1">>, <<>>),
                     Cmd("hgetall", "k1", <<>>, <<>>)}
               [] type = "set" ->
                    {Cmd("sadd", "k1", <<"m1">>, <<>>), Cmd("scard", "k1", <<>>, <<>>),
                     Cmd("smembers", "k1", <<>>, <<>>)},
             {}, 0, FALSE, {TicksPerSec, TicksPerSec + 1})

\* a value of each variant with a TTL, and the writes of the variant
ScnWrites(type) ==
    Scenario("writes", "lru", 0,
             {Cmd("expire", "k1", <<>>, Num(1))} \cup
             CASE type = "string" ->
                    {Cmd("set", "k1", <<"aa">>, <<>>), Cmd("set", "k1", <<"bb">>, <<>>)}
               [] type = "list" ->
                    {Cmd("rpush", "k1", <<"x">>, <<>>), Cmd("lpush", "k1", <<"y">>, <<>>),
                     Cmd("lpop", "k1", <<>>, <<>>), Cmd("rpop", "k1", <<>>, <<>>)}
               [] type = "hash" ->
                    {Cmd("hset", "k1", <<"f1", "x">>, <<>>), Cmd("hset", "k1", <<"f2", "y">>, <<>>),
                     Cmd("hdel", "k1", <<"f1">>, <<>>)}
               [] type = "set" ->
                    {Cmd("sadd", "k1", <<"m1">>, <<>>), Cmd("sadd", "k1", <<"m2">>, <<>>),
                     Cmd("srem", "k1", <<"m1">>, <<>>)},
             {}, 0, FALSE, {1})

\* a value of one variant with a TTL, the clock, and commands of the other
\* variants on its key
ScnTypes(type) ==
    Scenario("types", "lru", 0,
             {Cmd("expire", "k1", <<>>, Num(1))} \cup
             CASE type = "string" ->
                    {Cmd("set", "k1", <<"aa">>, <<>>), Cmd("lpush", "k1", <<"y">>, <<>>),
                     Cmd("lrange", "k1", <<Num(0), Num(1)>>, <<>>),
                     Cmd("hset", "k1", <<"f1", "x">>, <<>>), Cmd("sadd", "k1", <<"m1">>, <<>>)}
               [] type = "list" ->
                    {Cmd("rpush", "k1", <<"x">>, <<>>), Cmd("get", "k1", <<>>, <<>>),
                     Cmd("hget", "k1", <<"f1">>, <<>>), Cmd("hdel", "k1", <<"f1">>, <<>>),
                     Cmd("srem", "k1", <<"m1">>, <<>>)}
               [] type = "hash" ->
                    {Cmd("hset", "k1", <<"f1", "x">>, <<>>), Cmd("rpush", "k1", <<"x">>, <<>>),
                     Cmd("lpop", "k1", <<>>, <<>>), Cmd("llen", "k1", <<>>, <<>>),
                     Cmd("scard", "k1", <<>>, <<>>), Cmd("smembers", "k1", <<>>, <<>>)}
               [] type = "set" ->
                    {Cmd("sadd", "k1", <<"m1">>, <<>>), Cmd("rpop", "k1", <<>>, <<>>),
                     Cmd("hgetall", "k1", <<>>, <<>>), Cmd("set", "k1", <<"aa">>, <<>>)},
             {}, 0, FALSE, {TicksPerSec + 1})

\* EXPIRE with a positive and with no delay, on a stored and on an absent key
ScnExpire ==
    Scenario("expire", "lru", 0,
             {Cmd("set", "k1", <<"aa">>, <<>>), Cmd("expire", "k1", <<>>, Num(1)),
              Cmd("expire", "k1", <<>>, Num(0)), Cmd("expire", "k2", <<>>, Num(1)),
              Cmd("expire", "k1", <<>>, <<"x">>)},
             {}, 0, FALSE, {1, TicksPerSec + 1})

ScnCache(policy, maxBytes) == Scenario("cache", policy, maxBytes, {}, {}, 0, FALSE, {})

\* no cluster: one node serves its clients itself
NoCluster ==
    /\ crc = <<>>
    /\ routers = <<>>
    /\ calls = <<>>

\* sent: the commands the client has written, in order; wire: their bytes
\* not yet received; inbuf: the bytes received and not yet parsed; parser:
\* parse0 is in its loop ("run") or has returned; ch: the Payload parse0 is
\* sending on the unbuffered channel; yielded: the Payloads sent so far;
\* handler: handleConnection is in its loop ("run"), has returned or has
\* panicked; out: the replies written to the connection
NoConn ==
    [sent |-> <<>>, wire |-> <<>>, inbuf |-> <<>>, parser |-> "run", ch |-> <<>>,
     yielded |-> <<>>, handler |-> "run", out |-> <<>>]

\* The Server before Start: start is where Start is ("new", "accept" in
\* listener.Accept, "got" with a connection Accept returned, "tracked" after
\* trackConn, "returned"), cur the connection Start holds, field whether
\* s.listener is set, listener the socket ("none", "open", "closed"), closing
\* whether s.closing is closed, conns the tracked connections, sock each
\* connection ("none", "open", "closed" by the server), hung whether its
\* client has hung up, handler the goroutine of each ("none", "running",
\* "exited"), wg the wait group's counter, sd where Shutdown is ("idle",
\* "wait" in the select, "returned"), done whether the done channel is closed,
\* expired whether ctx is done, dbClosed whether s.Db.Close() has run.
\* History: late, the connections Accept returned after Shutdown began;
\* served, the connections a handler has answered since Shutdown began;
\* atClose, the handlers running when the database was closed and whether
\* the deadline had passed then.
Conns == {"c1", "c2"}

NoServer ==
    [start |-> "new", cur |-> "", field |-> FALSE, listener |-> "none", closing |-> FALSE,
     conns |-> {}, sock |-> [c \in Conns |-> "none"], hung |-> [c \in Conns |-> FALSE],
     handler |-> [c \in Conns |-> "none"], wg |-> 0,
     sd |-> "idle", done |-> FALSE, expired |-> FALSE, dbClosed |-> FALSE,
     late |-> {}, served |-> {}, atClose |-> [live |-> {}, expired |-> FALSE]]

\* the first process, started on no files
InitStandalone(s, ph) ==
    /\ scn = s
    /\ db = NewStandaloneDBWithConfig(s.policy, s.maxBytes)
    /\ now = StartTime
    /\ ops = <<>>
    /\ closing = FALSE
    /\ bgState = "run"
    /\ aof = NewAofHandler
    /\ aofFile = <<>>
    /\ rdbFile = <<>>
    /\ rw = IdleWorker
    /\ phase = ph
    /\ loadPos = 0
    /\ hist = NoHistory
    /\ saving = NoSave
    /\ closers = NoClosers
    /\ execs = NoExecs
    /\ conn = NoConn
    /\ srv = NoServer

InitWith(s) == NoCluster /\ InitStandalone(s, "serve")

Init == \E s \in Scenarios : InitWith(s)

Next ==
    \/ \E cmd \in scn.cmds : Exec(cmd)
    \/ Background
    \/ HandleAof
    \/ ActiveExpire
    \/ \E d \in scn.ticks : Tick(d)
    \/ Close
    \/ DrainExit
    \/ CloseAof
    \/ \E maxBytes \in scn.restartMax : Restart(maxBytes)
    \/ LoadRdb
    \/ LoadAof
    \/ LoadDone

Spec == Init /\ [][Next]_vars

InitClose == InitWith(ScnClose)

NextClose ==
    \/ \E cmd \in scn.cmds : Exec(cmd)
    \/ Background
    \/ HandleAof
    \/ Close
    \/ DrainExit
    \/ CloseAof

SpecClose == InitClose /\ [][NextClose]_vars

InitRewrite == InitWith(ScnBgRewrite)

NextRewrite ==
    \/ \E cmd \in scn.cmds : Exec(cmd)
    \/ Background
    \/ HandleAof
    \/ RewriteWorker
    \/ HandleAofRewriteDone
    \/ Close
    \/ DrainExit
    \/ CloseAof

SpecRewrite == InitRewrite /\ [][NextRewrite]_vars

InitRewriteFails == \E fault \in RewriteFaults : InitWith(WithFault(ScnRewriteFails, fault))

NextRewriteFails ==
    \/ \E cmd \in scn.cmds : Exec(cmd)
    \/ Background
    \/ HandleAof
    \/ RewriteWorker
    \/ HandleAofRewriteDone

SpecRewriteFails == InitRewriteFails /\ [][NextRewriteFails]_vars

\* The worker is a goroutine of its own and leaves its result in
\* aofRewriteDone; the executor's select takes a ready case at random, so a
\* result waiting in aofRewriteDone is taken eventually.
SpecRewriteFair ==
    /\ InitRewriteFails
    /\ [][NextRewriteFails]_vars
    /\ WF_vars(RewriteWorker)
    /\ WF_vars(HandleAofRewriteDone)

InitSave == InitWith(ScnSave)

NextSave ==
    \/ \E cmd \in scn.cmds : Exec(cmd)
    \/ ServeOther
    \/ HandleAof
    \/ SaveBegin
    \/ SaveOpen
    \/ SaveWrite
    \/ SaveRemove
    \/ SaveRename

SpecSave == InitSave /\ [][NextSave]_vars

\* a process that starts on a log left by an earlier one
InitLoad ==
    /\ NoCluster
    /\ scn = ScnLoad
    /\ db = NewStandaloneDBWithConfig(scn.policy, scn.maxBytes)
    /\ now = StartTime
    /\ ops = <<>>
    /\ closing = FALSE
    /\ bgState = "run"
    /\ aof = NewAofHandler
    /\ aofFile \in DamagedLogs
    /\ rdbFile = <<>>
    /\ rw = IdleWorker
    /\ phase = "load"
    /\ loadPos = 0
    /\ hist = NoHistory
    /\ saving = NoSave
    /\ closers = NoClosers
    /\ execs = NoExecs
    /\ conn = NoConn
    /\ srv = NoServer

NextLoad ==
    \/ LoadRdb
    \/ LoadAof
    \/ LoadAofError
    \/ LoadDone
    \/ \E cmd \in scn.cmds : Exec(cmd)
    \/ Background
    \/ HandleAof

SpecLoad == InitLoad /\ [][NextLoad]_vars

InitTrip == InitWith(ScnTrip)

NextTrip ==
    \/ \E cmd \in scn.cmds : Exec(cmd)
    \/ Background
    \/ HandleAof
    \/ \E d \in scn.ticks : Tick(d)
    \/ \E d1, d2 \in 0..MaxTripDelay : SnapshotTrip(d1, d2)

SpecTrip == InitTrip /\ [][NextTrip]_vars

\* clients in Exec around a Close, with a clock that can pass the timeout
ScnExecClose ==
    Scenario("execclose", "lru", 0,
             {Cmd("set", "k1", <<"aa">>, <<>>), Cmd("get", "k1", <<>>, <<>>)},
             {}, 0, FALSE, {ExecTimeout})

InitExecClose == InitWith(ScnExecClose)

NextExecClose ==
    \/ \E i \in 1..MaxClients, cmd \in scn.cmds : ExecBegin(i, cmd)
    \/ \E i \in 1..MaxClients : ExecSend(i)
    \/ \E i \in 1..MaxClients : ExecWait(i)
    \/ \E i \in 1..MaxClients : ExecWake(i)
    \/ Background
    \/ HandleAof
    \/ \E d \in scn.ticks : Tick(d)
    \/ Close
    \/ DrainExit
    \/ CloseAof

SpecExecClose == InitExecClose /\ [][NextExecClose]_vars

InitCloses ==
    \E policy \in {"lru", "lfu"} :
        /\ NoCluster
        /\ InitStandalone(Scenario("closes", policy, 0, {}, {}, 0, FALSE, {}), "closes")

NextCloses == \E c \in Components : CallClose(c)

SpecCloses == InitCloses /\ [][NextCloses]_vars

InitFlush == InitWith(ScnFlush)

NextFlush ==
    \/ \E cmd \in scn.cmds : Exec(cmd)
    \/ Background
    \/ FlushCall
    \/ HandleAofTask
    \/ TickerSync

SpecFlush == InitFlush /\ [][NextFlush]_vars

InitReads == \E type \in {"string", "list", "hash", "set"} : InitWith(ScnReads(type))

NextReads ==
    \/ \E cmd \in scn.cmds : Exec(cmd)
    \/ Background
    \/ HandleAof
    \/ ActiveExpire
    \/ \E d \in scn.ticks : Tick(d)

SpecReads == InitReads /\ [][NextReads]_vars

InitWrites == \E type \in {"string", "list", "hash", "set"} : InitWith(ScnWrites(type))

NextWrites ==
    \/ \E cmd \in scn.cmds : Exec(cmd)
    \/ Background
    \/ HandleAof
    \/ \E d \in scn.ticks : Tick(d)

SpecWrites == InitWrites /\ [][NextWrites]_vars

InitTypes == \E type \in {"string", "list", "hash", "set"} : InitWith(ScnTypes(type))

NextTypes ==
    \/ \E cmd \in scn.cmds : Exec(cmd)
    \/ Background
    \/ HandleAof
    \/ \E d \in scn.ticks : Tick(d)

SpecTypes == InitTypes /\ [][NextTypes]_vars

InitExpire == InitWith(ScnExpire)

NextExpire ==
    \/ \E cmd \in scn.cmds : Exec(cmd)
    \/ Background
    \/ HandleAof
    \/ \E d \in scn.ticks : Tick(d)

SpecExpire == InitExpire /\ [][NextExpire]_vars

\* three strings under a budget of two, with commands that look a key up and
\* a read that promotes it; StartTime is 10 ticks, so 5 ms is past and 1000
\* ms is to come
ScnPeek(policy) ==
    Scenario("peek", policy, 24,
             {Cmd("set", "k1", <<"0123456789">>, <<>>), Cmd("set", "k2", <<"0123456789">>, <<>>),
              Cmd("set", "k3", <<"0123456789">>, <<>>),
              Cmd("ttl", "k1", <<>>, <<>>), Cmd("persist", "k1", <<>>, <<>>),
              Cmd("expire", "k1", <<>>, Num(1)), Cmd("pexpireat", "k1", <<>>, Num(1000)),
              Cmd("del", "k4", <<>>, <<>>), Cmd("get", "k1", <<>>, <<>>)},
             {}, 0, FALSE, {TicksPerSec + 1})

InitPeek == \E policy \in {"lru", "lfu"} : InitWith(ScnPeek(policy))

NextPeek ==
    \/ \E cmd \in scn.cmds : Exec(cmd)
    \/ Background
    \/ HandleAof
    \/ \E d \in scn.ticks : Tick(d)

SpecPeek == InitPeek /\ [][NextPeek]_vars

\* strings that fill the budget, and a list that shrinks in place, is
\* deleted and is stored again
ScnEvict(policy) ==
    Scenario("evict", policy, 40,
             {Cmd("set", "k1", <<"0123456789">>, <<>>), Cmd("set", "k2", <<"0123456789">>, <<>>),
              Cmd("set", "k3", <<"0123456789">>, <<>>), Cmd("rpush", "k4", <<"x", "y">>, <<>>),
              Cmd("lpop", "k4", <<>>, <<>>), Cmd("del", "k4", <<>>, <<>>),
              Cmd("get", "k1", <<>>, <<>>)},
             {}, 0, FALSE, {})

InitEvict == \E policy \in {"lru", "lfu"} : InitWith(ScnEvict(policy))

NextEvict ==
    \/ \E cmd \in scn.cmds : Exec(cmd)
    \/ Background
    \/ HandleAof

SpecEvict == InitEvict /\ [][NextEvict]_vars

InitCache ==
    \E policy \in {"lru", "lfu"}, maxBytes \in {0, 14, 40} :
        /\ NoCluster
        /\ saving = NoSave
        /\ closers = NoClosers
        /\ execs = NoExecs
        /\ conn = NoConn
        /\ srv = NoServer
        /\ scn = ScnCache(policy, maxBytes)
        /\ db = NewDB(policy, maxBytes)
        /\ now = StartTime
        /\ ops = <<>>
        /\ closing = FALSE
        /\ bgState = "run"
        /\ aof = NewAofHandler
        /\ aofFile = <<>>
        /\ rdbFile = <<>>
        /\ rw = IdleWorker
        /\ phase = "cache"
        /\ loadPos = 0
        /\ hist = NoHistory

NextCache ==
    \/ \E key \in CacheKeys, value \in CacheValues : CacheAdd(key, value)
    \/ \E key \in CacheKeys : CacheGet(key)
    \/ \E key \in CacheKeys : CacheRemove(key)
    \/ \E key \in CacheKeys : CachePushBack(key)

SpecCache == InitCache /\ [][NextCache]_vars

---------------------------------------------------------------------------
(* The cluster: the consistent-hash ring, replies on the wire, the Router *)

ChecksumIEEE(s) == crc[s]

\* sort.Slice of the hashes, ascending
RECURSIVE SortHashes(_)
SortHashes(hs) ==
    IF hs = <<>> THEN <<>>
    ELSE LET i == CHOOSE j \in DOMAIN hs : \A k \in DOMAIN hs : hs[j] <= hs[k]
         IN <<hs[i]>> \o SortHashes(SubSeq(hs, 1, i - 1) \o SubSeq(hs, i + 1, Len(hs)))

\* NewRing: vnodes hashes per node, node#0, node#1, ...; of two nodes with
\* the same hash the later one in the list keeps it
NewRing(nodes, n) ==
    LET vnodes == IF n <= 0 THEN 160 ELSE n
        nodeAt(p) == nodes[((p - 1) \div vnodes) + 1]
        hs == [p \in 1..(Len(nodes) * vnodes) |->
                  ChecksumIEEE(nodeAt(p) \o "#" \o ToString((p - 1) % vnodes))]
    IN [vnodes |-> vnodes, nodes |-> nodes, sortedHashes |-> SortHashes(hs),
        hashToNode |->
            [h \in Range(hs) |->
                nodeAt(CHOOSE p \in DOMAIN hs :
                           hs[p] = h /\ \A q \in DOMAIN hs : hs[q] = h => q <= p)]]

\* Ring.NodeForKey: the node of the first hash at or after the key's, around
\* the ring
NodeForKey(ring, key) ==
    IF ring.sortedHashes = <<>> THEN ""
    ELSE LET ge == {i \in DOMAIN ring.sortedHashes :
                       ring.sortedHashes[i] >= ChecksumIEEE(key)}
         IN ring.hashToNode[ring.sortedHashes[IF ge = {} THEN 1 ELSE Min(ge)]]

\* a Reply that holds the nil *MultiBulkReply parseArray returns for *-1
NilMultiBulk == [kind |-> "nilmulti", n |-> 0, s |-> "", a |-> <<>>]

NoWire == [prefix |-> "", line |-> <<>>, n |-> 0, args |-> <<>>]

\* Reply.ToBytes: the first line (prefix and text, or prefix and count) and
\* the bulks after it.  A MultiBulkReply without elements is the one made of
\* nil Args (no command builds an empty non-nil array).
ToBytes(r) ==
    CASE r.kind = "status" -> [NoWire EXCEPT !.prefix = "+", !.line = <<r.s>>]
      [] r.kind = "error" -> [NoWire EXCEPT !.prefix = "-", !.line = <<r.s>>]
      [] r.kind = "int" -> [NoWire EXCEPT !.prefix = ":", !.line = FormatInt(r.n)]
      [] r.kind = "bulk" -> [NoWire EXCEPT !.prefix = "$", !.n = BLen(r.s), !.args = <<r.s>>]
      [] r.kind = "null" -> [NoWire EXCEPT !.prefix = "$", !.n = -1]
      [] r.kind = "multi" ->
           IF r.a = <<>> THEN [NoWire EXCEPT !.prefix = "*", !.n = -1]
           ELSE [NoWire EXCEPT !.prefix = "*", !.n = Len(r.a), !.args = r.a]

\* parseLine (with parseArray and parseBulk) of what ToBytes wrote
parseLine(w) ==
    CASE w.prefix = "+" -> MakeStatusReply(w.line[1])
      [] w.prefix = "-" -> MakeErrReply(w.line[1])
      [] w.prefix = ":" ->
           IF ParseInt(w.line).ok THEN MakeIntReply(ParseInt(w.line).n)
           ELSE MakeErrReply("ERR cluster forward failed")
      [] w.prefix = "$" -> IF w.n = -1 THEN NullBulkReply ELSE MakeBulkReply(w.args[1])
      [] w.prefix = "*" -> IF w.n = -1 THEN NilMultiBulk ELSE MakeMultiBulkReply(w.args)

\* NewRouter; up: the node's process is running
NewRouter(localAddr, nodes, vnodes) ==
    [localAddr |-> localAddr, ring |-> NewRing(nodes, vnodes),
     localDB |-> NewStandaloneDBWithConfig("lru", 0), up |-> TRUE]

\* r.localDB.Exec(cmd): [D, res]
LocalExec(rt, cmd) == execCommand(rt.localDB, cmd, now, FALSE, ToLower(cmd.name))

ForwardFailed == MakeErrReply("ERR cluster forward failed")

\* execDel: the node of a key, and the groups node -> keys
Owner(rt, key) ==
    IF NodeForKey(rt.ring, key) = "" THEN rt.localAddr ELSE NodeForKey(rt.ring, key)

Groups(rt, keys) ==
    [node \in {Owner(rt, keys[i]) : i \in DOMAIN keys} |->
        SelectSeq(keys, LAMBDA k : Owner(rt, k) = node)]

\* the DEL <group-keys> a group's goroutine sends
SubDel(keys) == Cmd("DEL", Head(keys), Tail(keys), <<>>)

\* the delResult a group's goroutine sends for the reply it got
DelResult(reply) ==
    IF reply.kind = "error" THEN [count |-> 0, err |-> reply]
    ELSE IF reply.kind # "int"
    THEN [count |-> 0, err |-> MakeErrReply("ERR cluster: DEL unexpected reply")]
    ELSE [count |-> reply.n, err |-> NoReply]

\* a faulty aggregation: the count of the last group
TotalLast(results) == IF results = <<>> THEN 0 ELSE Last(results).count

\* execDel's loop over the results channel: the total of the counts
RECURSIVE Total(_)
Total(results) ==
    IF results = <<>> THEN 0 ELSE Head(results).count + Total(Tail(results))

\* execDel's reply: the first error in the channel, or the total
DelReply(results) ==
    IF \E j \in DOMAIN results : results[j].err # NoReply
    THEN results[Min({j \in DOMAIN results : results[j].err # NoReply})].err
    ELSE MakeIntReply(Total(results))

\* Router.Exec: the target of a single-key command
Target(rt, key) == NodeForKey(rt.ring, key)

\* a command a client sent to the node entry.  path: the nodes whose
\* Router.Exec is handling it, the last one at work; ran: the nodes whose
\* localDB ran it; execReply: the reply of the localDB (or of execDel);
\* failed: a forward failed; sent: the DEL groups dispatched; results: the
\* results channel of execDel with, as exec, what the group's node answered;
\* seen: the calls answered before this one was sent
NewCall(entry, cmd, seen) ==
    [cmd |-> cmd, seen |-> seen, entry |-> entry, path |-> <<entry>>, state |-> "routing", target |-> "",
     reply |-> NoReply, execReply |-> NoReply, ran |-> <<>>, failed |-> FALSE, hops |-> 0,
     pending |-> <<>>, results |-> <<>>, sent |-> <<>>, wire |-> NoWire]

At(c) == Last(c.path)

\* a client sends cmd to the node entry
ClientExec(entry, cmd) ==
    /\ phase = "cluster"
    /\ Len(calls) < MaxCalls
    /\ routers[entry].up
    /\ calls' = Append(calls, NewCall(entry, cmd, {j \in DOMAIN calls : calls[j].state = "done"}))
    /\ UNCHANGED <<crc, routers, standaloneVars>>

\* the reply r of the localDB of the node at work, which becomes D
Ran(i, r) ==
    /\ routers' = [routers EXCEPT ![At(calls[i])].localDB = r.D]
    /\ calls' = [calls EXCEPT ![i].state = "replying", ![i].reply = r.res,
                              ![i].execReply = r.res,
                              ![i].ran = Append(@, At(calls[i]))]

\* Router.Exec: ping, a command without key, or a key of this node
RouterExecLocal(i) ==
    /\ phase = "cluster"
    /\ calls[i].state = "routing"
    /\ routers[At(calls[i])].up
    /\ ToLower(calls[i].cmd.name) # "del"
    /\ \/ ToLower(calls[i].cmd.name) = "ping"
       \/ Argc(calls[i].cmd) < 2
       \/ Target(routers[At(calls[i])], calls[i].cmd.key) \in {"", At(calls[i])}
    /\ Ran(i, LocalExec(routers[At(calls[i])], calls[i].cmd))
    /\ UNCHANGED <<crc, standaloneVars>>

\* Router.Exec: the key is another node's, peerDo
RouterForward(i) ==
    /\ phase = "cluster"
    /\ calls[i].state = "routing"
    /\ routers[At(calls[i])].up
    /\ ToLower(calls[i].cmd.name) \notin {"del", "ping"}
    /\ Argc(calls[i].cmd) >= 2
    /\ Target(routers[At(calls[i])], calls[i].cmd.key) \notin {"", At(calls[i])}
    /\ calls' = [calls EXCEPT ![i].state = "forwarding",
                              ![i].target = Target(routers[At(calls[i])], calls[i].cmd.key)]
    /\ UNCHANGED <<crc, routers, standaloneVars>>

\* PeerClient.Do: the command reaches the peer, whose server hands it to its
\* own Router.Exec
PeerDeliver(i) ==
    /\ phase = "cluster"
    /\ calls[i].state = "forwarding"
    /\ routers[calls[i].target].up
    /\ Len(calls[i].path) <= MaxHops
    /\ calls' = [calls EXCEPT ![i].state = "routing", ![i].path = Append(@, calls[i].target),
                              ![i].hops = @ + 1]
    /\ UNCHANGED <<crc, routers, standaloneVars>>

\* PeerClient.Do fails before the peer has the command (dial or write)
PeerFail(i) ==
    /\ phase = "cluster"
    /\ calls[i].state = "forwarding"
    /\ calls' = [calls EXCEPT ![i].state = "replying", ![i].reply = ForwardFailed,
                              ![i].failed = TRUE]
    /\ UNCHANGED <<crc, routers, standaloneVars>>

\* the peer's server writes reply.ToBytes() and PeerClient.Do reads it with
\* ReadReply, or fails to (lost); the peer panics on a nil *MultiBulkReply
PeerReply(i) ==
    /\ phase = "cluster"
    /\ calls[i].state = "replying"
    /\ Len(calls[i].path) > 1
    /\ \E lost \in BOOLEAN :
          calls' = [calls EXCEPT
                      ![i].path = SubSeq(@, 1, Len(@) - 1),
                      ![i].failed = @ \/ lost \/ calls[i].reply = NilMultiBulk,
                      ![i].reply = IF lost \/ calls[i].reply = NilMultiBulk THEN ForwardFailed
                                   ELSE parseLine(ToBytes(calls[i].reply))]
    /\ routers' = IF calls[i].reply = NilMultiBulk
                  THEN [routers EXCEPT ![At(calls[i])].up = FALSE] ELSE routers
    /\ UNCHANGED <<crc, standaloneVars>>

\* handleConnection at the entry node: conn.Write(reply.ToBytes()); ToBytes
\* on a nil *MultiBulkReply panics and the process ends
ServerReply(i) ==
    /\ phase = "cluster"
    /\ calls[i].state = "replying"
    /\ Len(calls[i].path) = 1
    /\ IF calls[i].reply = NilMultiBulk
       THEN /\ calls' = [calls EXCEPT ![i].state = "panicked"]
            /\ routers' = [routers EXCEPT ![calls[i].entry].up = FALSE]
       ELSE /\ calls' = [calls EXCEPT ![i].state = "done",
                                      ![i].wire = ToBytes(calls[i].reply)]
            /\ UNCHANGED routers
    /\ UNCHANGED <<crc, standaloneVars>>

\* Router.Exec: DEL goes to execDel, which groups the keys by node
RouterExecDel(i) ==
    /\ phase = "cluster"
    /\ calls[i].state = "routing"
    /\ routers[At(calls[i])].up
    /\ ToLower(calls[i].cmd.name) = "del"
    /\ calls' = IF Argc(calls[i].cmd) < 2
                THEN [calls EXCEPT ![i].state = "replying", ![i].reply = ErrArgs,
                                   ![i].execReply = ErrArgs]
                ELSE [calls EXCEPT ![i].state = "del",
                                   ![i].pending = Groups(routers[At(calls[i])],
                                                         <<calls[i].cmd.key>> \o calls[i].cmd.args)]
    /\ UNCHANGED <<crc, routers, standaloneVars>>

\* the goroutine of the group of node has its reply (exec: what the node's
\* localDB answered, NoReply when it did not run)
DelGrouped(i, node, reply, exec) ==
    calls' = [calls EXCEPT
                ![i].pending = [n \in DOMAIN calls[i].pending \ {node} |-> calls[i].pending[n]],
                ![i].sent = Append(@, [node |-> node, keys |-> calls[i].pending[node]]),
                ![i].ran = IF exec = NoReply THEN @ ELSE Append(@, node),
                ![i].failed = @ \/ reply = ForwardFailed,
                ![i].results = Append(@, [count |-> DelResult(reply).count,
                                          err |-> DelResult(reply).err, exec |-> exec])]

\* the group of node was run by the node's localDB, with outcome r; lost:
\* the reply did not come back
DelRan(i, node, r, lost) ==
    /\ DelGrouped(i, node,
                  IF lost THEN ForwardFailed
                  ELSE IF node = calls[i].entry THEN r.res ELSE parseLine(ToBytes(r.res)),
                  r.res)
    /\ routers' = [routers EXCEPT ![node].localDB = r.D]

\* execDel, the goroutine of the local group: r.localDB.Exec(subCmd)
DelGroupLocal(i) ==
    /\ phase = "cluster"
    /\ calls[i].state = "del"
    /\ calls[i].entry \in DOMAIN calls[i].pending
    /\ DelRan(i, calls[i].entry,
              LocalExec(routers[calls[i].entry], SubDel(calls[i].pending[calls[i].entry])),
              FALSE)
    /\ UNCHANGED <<crc, standaloneVars>>

\* execDel, the goroutine of another node's group: peerDo(node, subCmd).  The
\* peer's Router.Exec runs execDel on the same ring, so its one group is its
\* own and goes to its localDB; the reply comes back over the wire or is lost
DelGroupPeer(i, node) ==
    /\ phase = "cluster"
    /\ calls[i].state = "del"
    /\ node \in DOMAIN calls[i].pending
    /\ node # calls[i].entry
    /\ routers[node].up
    /\ DOMAIN Groups(routers[node], calls[i].pending[node]) = {node}
    /\ \E lost \in BOOLEAN :
          DelRan(i, node, LocalExec(routers[node], SubDel(calls[i].pending[node])), lost)
    /\ UNCHANGED <<crc, standaloneVars>>

\* execDel, the goroutine of another node's group: peerDo fails before the
\* peer has the command
DelGroupFail(i, node) ==
    /\ phase = "cluster"
    /\ calls[i].state = "del"
    /\ node \in DOMAIN calls[i].pending
    /\ node # calls[i].entry
    /\ DelGrouped(i, node, ForwardFailed, NoReply)
    /\ UNCHANGED <<crc, routers, standaloneVars>>

\* execDel after wg.Wait(): the first error of the results, or the total
DelReturn(i) ==
    /\ phase = "cluster"
    /\ calls[i].state = "del"
    /\ DOMAIN calls[i].pending = {}
    /\ calls' = [calls EXCEPT ![i].state = "replying",
                              ![i].reply = DelReply(calls[i].results),
                              ![i].execReply = DelReply(calls[i].results)]
    /\ UNCHANGED <<crc, routers, standaloneVars>>

\* the nodes of the cluster, every router built from the same list
ClusterNodes == <<"n1", "n2">>
ClusterKeys == {"k1", "k2"}

ClusterCmds ==
    {Cmd("set", "k1", <<"aa">>, <<>>), Cmd("get", "k1", <<>>, <<>>),
     Cmd("smembers", "k2", <<>>, <<>>), Cmd("del", "k1", <<"k2">>, <<>>),
     Cmd("set", "k2", <<"bb">>, <<>>)}

InitCluster ==
    /\ InitStandalone(Scenario("cluster", "lru", 0, ClusterCmds, {}, 0, FALSE, {}), "cluster")
    /\ crc \in [ClusterKeys \cup {ClusterNodes[j] \o "#0" : j \in DOMAIN ClusterNodes}
                  -> 0..MaxHash]
    /\ routers = [n \in Range(ClusterNodes) |-> NewRouter(n, ClusterNodes, 1)]
    /\ calls = <<>>

NextCluster ==
    \/ \E entry \in Range(ClusterNodes), cmd \in scn.cmds : ClientExec(entry, cmd)
    \/ \E i \in DOMAIN calls : RouterExecLocal(i)
    \/ \E i \in DOMAIN calls : RouterForward(i)
    \/ \E i \in DOMAIN calls : PeerDeliver(i)
    \/ \E i \in DOMAIN calls : PeerFail(i)
    \/ \E i \in DOMAIN calls : PeerReply(i)
    \/ \E i \in DOMAIN calls : ServerReply(i)
    \/ \E i \in DOMAIN calls : RouterExecDel(i)
    \/ \E i \in DOMAIN calls : DelGroupLocal(i)
    \/ \E i \in DOMAIN calls, node \in Range(ClusterNodes) : DelGroupPeer(i, node)
    \/ \E i \in DOMAIN calls, node \in Range(ClusterNodes) : DelGroupFail(i, node)
    \/ \E i \in DOMAIN calls : DelReturn(i)

SpecCluster == InitCluster /\ [][NextCluster]_vars

---------------------------------------------------------------------------
(* Properties *)

\* Load has returned in a process started after a Close, and nothing has been
\* executed since
JustLoaded == phase = "serve" /\ hist.fresh

\* the keys of the visible state vis whose expiration is none or after t
Lasting(vis, t) == {k \in DOMAIN vis : vis[k].exp = 0 \/ t < TimeOfMilli(vis[k].exp)}

\* C1: after Close, a fresh StandaloneDB with the same configuration that
\* runs Load holds exactly the keys that were present and unexpired at Close,
\* each with the same value and the same absolute expiration.
C1_LoadRestoresStateAtClose ==
    (JustLoaded /\ hist.sameCfg) =>
        /\ \A k \in DOMAIN Visible(db, now) :
              k \in DOMAIN hist.atClose /\ Visible(db, now)[k] = hist.atClose[k]
        /\ Lasting(hist.atClose, now) \subseteq DOMAIN Visible(db, now)

\* C2: the keys evicted by byte pressure during a command are in the log as
\* DEL records, in eviction order, right after the record of that command
\* and before the record of any later command.
C2_EvictionsLoggedAfterCommand ==
    (hist.last.op \in {"cmd", "replay"} /\ hist.last.ev # <<>>) =>
        LET log == aofFile \o aof.aofChan
            n == Len(hist.last.ev)
        IN /\ Len(log) > n
           /\ SubSeq(log, Len(log) - n + 1, Len(log)) = DelFrames(hist.last.ev)
           /\ log[Len(log) - n] = hist.last.cmd

\* C3: a key evicted by byte pressure and not written again is absent after
\* every later restart, whatever byte budget the restart uses, and the keys
\* that were not evicted are restored.
C3_EvictedKeysStayAbsent ==
    JustLoaded =>
        /\ \A k \in hist.evicted : k \notin DOMAIN Visible(db, now)
        /\ \A k \in DOMAIN hist.atClose :
              (hist.atClose[k].exp = 0 /\ k \notin hist.evLoad) => k \in DOMAIN db.vals

\* C4: a key that had a TTL at Close is, after any restart, either gone or
\* carries an expiration not later than the one it had: a restart never
\* extends a TTL.
C4_RestartNeverExtendsTtl ==
    JustLoaded =>
        \A k \in DOMAIN hist.atClose :
            (hist.atClose[k].exp > 0 /\ k \in DOMAIN db.vals) =>
                (k \in DOMAIN db.ttl /\ UnixMilli(db.ttl[k]) <= hist.atClose[k].exp)

\* C5: between executor steps every key of the TTL table is stored in the
\* cache.
C5_TtlKeysAreStored == DOMAIN db.ttl \subseteq DOMAIN db.vals

\* C6: after every command the cache's tracked byte total equals the sum
\* over the stored entries of len(key) plus the value's current size.
C6_TrackedBytesAreTheSum == ~db.hung => db.nbytes = SumSizes(db, DOMAIN db.vals)

\* C7: after any Add returns, the tracked total is at most max-bytes, or
\* max-bytes is 0.
C7_AddKeepsBudget ==
    hist.last.op = "Add" => (db.maxBytes = 0 \/ db.nbytes <= db.maxBytes)

\* an Add under a byte budget has returned after evicting two entries
C7_AddEvictedTwice ==
    hist.last.op = "Add" /\ db.maxBytes # 0 /\ Len(db.ev) >= 2 /\ db.nbytes <= db.maxBytes

\* C8: once the installer of BGREWRITEAOF has run, the live log is the
\* reconstruction commands of the snapshot followed by every frame accepted
\* since start-rewrite, each once and in executor order.
C8_InstalledLogIsSnapshotThenWindow ==
    hist.rw.installed => aofFile \o aof.aofChan = hist.rw.base \o hist.rw.accepted

\* the installer has run on a non-empty snapshot with writes accepted in the
\* window, and all of it is in the file
C8_InstalledWithWindowWrites ==
    /\ hist.rw.installed
    /\ hist.rw.window > 0
    /\ hist.rw.base # <<>>
    /\ aofFile = hist.rw.base \o hist.rw.accepted

\* C9: after REWRITEAOF has returned OK, a restart with the same
\* configuration yields the keys, values and expirations of the state at
\* Close, the writes executed after the rewrite included.
C9_RewrittenLogRestoresState ==
    (JustLoaded /\ hist.sameCfg /\ hist.rewrote) =>
        /\ Lasting(hist.atClose, now) \subseteq DOMAIN Visible(db, now)
        /\ \A k \in DOMAIN Visible(db, now) :
              /\ k \in DOMAIN hist.atClose
              /\ Visible(db, now)[k].value = hist.atClose[k].value
              /\ Visible(db, now)[k].exp = hist.atClose[k].exp

\* s is t with elements left out
RECURSIVE IsSubseq(_, _)
IsSubseq(s, t) ==
    IF s = <<>> THEN TRUE
    ELSE IF t = <<>> THEN FALSE
    ELSE IF Head(s) = Head(t) THEN IsSubseq(Tail(s), Tail(t))
    ELSE IsSubseq(s, Tail(t))

\* C10: after Close has returned, the log file holds, in order, the record
\* of every write command that was answered without error, those executed
\* by the drain loop included.
C10_CloseLeavesAckedWritesInLog ==
    phase = "closed" => IsSubseq(hist.acked, aofFile)

\* Close has returned after the drain loop executed a write
C10_ClosedAfterDrainedWrite ==
    phase = "closed" /\ hist.drained /\ aof.closed /\ aof.aofChan = <<>>

\* C11: when Flush has returned, every record passed to AddAof before the
\* call is in the live file, in the order it was passed, and none of them
\* is among the records written since the last fsync.
C11_FlushedRecordsAreSynced ==
    \A i \in 1..Len(hist.flushes) :
        hist.flushes[i].done =>
            /\ Len(hist.flushes[i].want) <= Len(aofFile) - aof.unsynced
            /\ SubSeq(aofFile, 1, Len(hist.flushes[i].want)) = hist.flushes[i].want

\* a Flush has returned that was called after an answered write command, and
\* a record passed after the call is still unsynced or queued
C11_FlushReturnedBeforeLaterRecord ==
    \E i \in 1..Len(hist.flushes) :
        /\ hist.flushes[i].done
        /\ hist.flushes[i].want # <<>>
        /\ hist.acked # <<>>
        /\ Last(hist.flushes[i].want) = Last(SubSeq(hist.acked, 1, Len(hist.flushes[i].want)))
        /\ aof.unsynced > 0 \/ Payloads(aof.aofChan) # <<>>

\* the executor serves the command at the head of db.ops, one of names, and
\* its key is stored with a TTL that is past-due
PastDueStep(names) ==
    /\ ops # <<>>
    /\ ops' = Tail(ops)
    /\ hist'.last.op = "cmd"
    /\ ToLower(Head(ops).cmd.name) \in names
    /\ Head(ops).cmd.key \in DOMAIN db.vals
    /\ Expired(db, Head(ops).cmd.key, now)

\* C12: DEL, EXPIRE, PEXPIREAT, PERSIST and TTL on a stored key whose TTL is
\* past-due remove the key from the cache and the TTL table and answer as for
\* an absent key (-2 for TTL, 0 for the others).
C12_KeyCommandsTreatPastDueAsAbsent ==
    [][PastDueStep({"del", "expire", "pexpireat", "persist", "ttl"}) =>
          /\ Head(ops).cmd.key \notin DOMAIN db'.vals
          /\ Head(ops).cmd.key \notin DOMAIN db'.ttl
          /\ hist'.last.res = MakeIntReply(IF ToLower(Head(ops).cmd.name) = "ttl"
                                           THEN -2 ELSE 0)]_vars

\* the reply of the read cmd for a key that is not there
MissingReply(cmd) ==
    CASE ToLower(cmd.name) \in {"get", "hget"} -> NullBulkReply
      [] ToLower(cmd.name) \in {"llen", "scard"} -> MakeIntReply(0)
      [] OTHER -> MakeMultiBulkReply(<<>>)

ReadCommands == {"get", "lrange", "llen", "hget", "hgetall", "scard", "smembers"}

\* C13: a read (GET, LRANGE, LLEN, HGET, HGETALL, SCARD, SMEMBERS) of a
\* stored key whose TTL is in the past answers with the missing or empty
\* reply and leaves neither the cache nor the TTL table with the key.
C13_ReadOfPastDueKeyIsMissing ==
    (/\ hist.last.op = "cmd"
     /\ hist.last.due
     /\ ToLower(hist.last.cmd.name) \in ReadCommands)
        => /\ hist.last.res = MissingReply(hist.last.cmd)
           /\ hist.last.cmd.key \notin DOMAIN db.vals
           /\ hist.last.cmd.key \notin DOMAIN db.ttl

\* a read has just been served for a key that was stored and past-due
C13_ReadFoundPastDueKey ==
    /\ hist.last.op = "cmd"
    /\ hist.last.due
    /\ ToLower(hist.last.cmd.name) \in ReadCommands
    /\ hist.last.res = MissingReply(hist.last.cmd)

\* the expiration of key in the TTL table (0: none)
TtlOf(key) == IF key \in DOMAIN db.ttl THEN db.ttl[key] ELSE 0

ContainerWrites == {"lpush", "rpush", "lpop", "rpop", "hset", "hdel", "sadd", "srem"}

\* C14: after a SET the key has no entry in the TTL table; after any other
\* write command (LPUSH, RPUSH, LPOP, RPOP, HSET, HDEL, SADD, SREM) on a key
\* that was stored and not past-due and is still stored, the key's absolute
\* expiration is what it was before the command.
C14_OnlySetClearsTtl ==
    /\ (/\ hist.last.op = "cmd"
        /\ ToLower(hist.last.cmd.name) = "set"
        /\ ~isError(hist.last.res))
          => hist.last.cmd.key \notin DOMAIN db.ttl
    /\ (/\ hist.last.op = "cmd"
        /\ ToLower(hist.last.cmd.name) \in ContainerWrites
        /\ hist.last.stored
        /\ ~hist.last.due
        /\ hist.last.cmd.key \in DOMAIN db.vals)
          => TtlOf(hist.last.cmd.key) = hist.last.ttl0

\* a SET has just replaced a value that had a TTL
C14_SetOnKeyWithTtl ==
    /\ hist.last.op = "cmd"
    /\ ToLower(hist.last.cmd.name) = "set"
    /\ ~isError(hist.last.res)
    /\ hist.last.stored
    /\ hist.last.ttl0 # 0

\* the variant a command works on
VariantOf(name) ==
    CASE name \in {"set", "get"} -> "string"
      [] name \in {"lpush", "rpush", "lpop", "rpop", "llen", "lrange"} -> "list"
      [] name \in {"hset", "hget", "hgetall", "hdel"} -> "hash"
      [] name \in {"sadd", "srem", "scard", "smembers"} -> "set"
      [] OTHER -> "none"

TypedCommands ==
    {"get", "lpush", "rpush", "lpop", "rpop", "llen", "lrange", "hset", "hget", "hgetall",
     "hdel", "sadd", "srem", "scard", "smembers"}

\* the executor serves the command at the head of db.ops, one of names, and
\* its key holds a value of another variant than the command's
OtherVariantStep(names) ==
    /\ ops # <<>>
    /\ ops' = Tail(ops)
    /\ hist'.last.op = "cmd"
    /\ ToLower(Head(ops).cmd.name) \in names
    /\ Head(ops).cmd.key \in DOMAIN db.vals
    /\ db.vals[Head(ops).cmd.key].type # VariantOf(ToLower(Head(ops).cmd.name))

\* what a command on a key of another variant does: WRONGTYPE and no change
\* of the values, the TTLs or the log while the key is not past-due; as on
\* the database without the key when it is
OtherVariantOutcome ==
    IF ~Expired(db, Head(ops).cmd.key, now)
    THEN /\ hist'.last.res = WrongType
         /\ db'.vals = db.vals
         /\ db'.ttl = db.ttl
         /\ hist'.last.frames = <<>>
         /\ aof'.aofChan = aof.aofChan
         /\ aofFile' = aofFile
    ELSE /\ hist'.last.res # WrongType
         /\ hist'.last.res = execCommand(Remove(db, Head(ops).cmd.key), Head(ops).cmd, now,
                                         aof.enabled, ToLower(Head(ops).cmd.name)).res
         /\ db'.vals = execCommand(Remove(db, Head(ops).cmd.key), Head(ops).cmd, now,
                                   aof.enabled, ToLower(Head(ops).cmd.name)).D.vals

\* C15 as stated, for every command that has a variant, SET included: on a
\* key holding a value of a different variant it answers WRONGTYPE and
\* changes nothing, or, the key being past-due, behaves as on an absent key.
C15_AnyCommandOnOtherVariant ==
    [][OtherVariantStep(TypedCommands \cup {"set"}) => OtherVariantOutcome]_vars

\* C15: every command of a variant other than SET (GET, the list, hash and
\* set commands), applied to a key that holds a value of a different variant,
\* answers WRONGTYPE and changes neither the values, the TTLs nor the log
\* while the key is not past-due, and behaves as on an absent key when it is.
C15_TypedCommandOnOtherVariant ==
    [][OtherVariantStep(TypedCommands) => OtherVariantOutcome]_vars

\* a command has just been refused with WRONGTYPE on a stored key
C15_WrongTypeAnswered ==
    /\ hist.last.op = "cmd"
    /\ hist.last.res = WrongType
    /\ hist.last.stored
    /\ hist.last.cmd.key \in DOMAIN db.vals

\* C16: the executor's step for EXPIRE passes to the log exactly PEXPIREAT key
\* <the stored expiration in unix ms> when the reply is 1 and the delay is
\* positive, exactly DEL key when the reply is 1 and the delay is not
\* positive (the key is then gone), and nothing when the reply is not 1; no
\* frame it passes is an EXPIRE.
C16_ExpireLoggedAsPexpireatOrDel ==
    [][(/\ ops # <<>>
        /\ ops' = Tail(ops)
        /\ hist'.last.op = "cmd"
        /\ ToLower(Head(ops).cmd.name) = "expire")
          => /\ aof'.aofChan = aof.aofChan \o hist'.last.frames
             /\ \A i \in DOMAIN hist'.last.frames :
                    ToLower(hist'.last.frames[i].name) # "expire"
             /\ IF hist'.last.res # MakeIntReply(1) THEN hist'.last.frames = <<>>
                ELSE IF ParseInt(Head(ops).cmd.num).n > 0
                THEN /\ Head(ops).cmd.key \in DOMAIN db'.ttl
                     /\ hist'.last.frames =
                          <<Cmd("PEXPIREAT", Head(ops).cmd.key, <<>>,
                                FormatInt(UnixMilli(db'.ttl[Head(ops).cmd.key])))>>
                ELSE /\ Head(ops).cmd.key \notin DOMAIN db'.vals
                     /\ hist'.last.frames = <<Cmd("DEL", Head(ops).cmd.key, <<>>, <<>>)>>]_vars

\* an EXPIRE has just set a TTL that is not a whole number of milliseconds
\* and was logged as PEXPIREAT
C16_ExpireLoggedPexpireat ==
    /\ hist.last.op = "cmd"
    /\ ToLower(hist.last.cmd.name) = "expire"
    /\ hist.last.res = MakeIntReply(1)
    /\ Len(hist.last.frames) = 1
    /\ hist.last.frames[1].name = "PEXPIREAT"
    /\ hist.last.cmd.key \in DOMAIN db.ttl
    /\ TimeOfMilli(UnixMilli(db.ttl[hist.last.cmd.key])) # db.ttl[hist.last.cmd.key]

\* the keys of a DEL, and how many of the dispatched groups hold a key
DelKeys(c) == <<c.cmd.key>> \o c.cmd.args
SentTo(c, key) == {g \in DOMAIN c.sent : key \in Range(c.sent[g].keys)}

RECURSIVE ExecTotal(_)
ExecTotal(results) ==
    IF results = <<>> THEN 0 ELSE Head(results).exec.n + ExecTotal(Tail(results))

IsRoutedDel(c) == ToLower(c.cmd.name) = "del" /\ Argc(c.cmd) >= 2

\* C17: a DEL through the router dispatches every key in exactly one group,
\* the group of the node that owns the key; once answered, the reply is the
\* sum of what the owners' databases counted when every group succeeded, and
\* an error reply when a group's reply was an error or its forward failed
C17_RouterDelSumsOwnersCounts ==
    \A i \in DOMAIN calls :
        IsRoutedDel(calls[i]) =>
            /\ \A g \in DOMAIN calls[i].sent :
                  \A k \in Range(calls[i].sent[g].keys) :
                      Owner(routers[calls[i].entry], k) = calls[i].sent[g].node
            /\ \A g, h \in DOMAIN calls[i].sent :
                  calls[i].sent[g].node = calls[i].sent[h].node => g = h
            /\ calls[i].state = "done" =>
                  /\ \A k \in Range(DelKeys(calls[i])) : Cardinality(SentTo(calls[i], k)) = 1
                  /\ calls[i].wire = ToBytes(calls[i].reply)
                  /\ IF \E j \in DOMAIN calls[i].results : calls[i].results[j].err # NoReply
                     THEN calls[i].reply.kind = "error"
                     ELSE calls[i].reply = MakeIntReply(ExecTotal(calls[i].results))

\* a DEL over keys of two nodes was answered with the count of a deleted key
C17_DelSpannedTwoOwners ==
    \E i \in DOMAIN calls :
        /\ IsRoutedDel(calls[i])
        /\ calls[i].state = "done"
        /\ Len(calls[i].sent) = 2
        /\ calls[i].reply.kind = "int"
        /\ calls[i].reply.n >= 1

IsSingleKey(c) == ToLower(c.cmd.name) \notin {"del", "ping"} /\ Argc(c.cmd) >= 2

\* C18: a single-key command whose forward did not fail is executed once, by
\* the ring owner of its key, after at most one forward, and the client is
\* sent that node's reply as it was; so a GET sent after a SET of the same
\* key was answered returns the value set
C18_SingleKeyRunsOnOwnerReplyUnchanged ==
    /\ \A i \in DOMAIN calls :
          (/\ IsSingleKey(calls[i])
           /\ ~calls[i].failed
           /\ calls[i].state \in {"replying", "done", "panicked"}
           /\ Len(calls[i].path) = 1)
          => /\ calls[i].ran = <<Owner(routers[calls[i].entry], calls[i].cmd.key)>>
             /\ calls[i].hops <= 1
             /\ calls[i].state # "panicked"
             /\ calls[i].state = "done" => calls[i].wire = ToBytes(calls[i].execReply)
    /\ \A i, j \in DOMAIN calls :
          (/\ calls[i].cmd.name = "set" /\ calls[j].cmd.name = "get"
           /\ calls[i].cmd.key = calls[j].cmd.key
           /\ i \in calls[j].seen
           /\ \A h \in DOMAIN calls \ {i, j} : ~isWriteCommand(calls[h].cmd)
           /\ calls[i].reply.kind = "status"
           /\ calls[j].state = "done" /\ ~calls[j].failed)
          => calls[j].wire = ToBytes(MakeBulkReply(calls[i].cmd.args[1]))

IsPrefix(s, t) == Len(s) <= Len(t) /\ SubSeq(t, 1, Len(s)) = s

\* the step is the executor's end of a rewrite that failed: REWRITEAOF
\* answered that the write of tmp or the finish failed, or the result of the
\* background worker was handled and nothing was installed
RewriteFailedStep ==
    \/ /\ ops # <<>>
       /\ ops' = Tail(ops)
       /\ ToLower(Head(ops).cmd.name) = "rewriteaof"
       /\ hist'.last.res \in {MakeErrReply("ERR rewrite write failed"),
                              MakeErrReply("ERR rewrite finish failed")}
    \/ /\ rw.state = "done"
       /\ rw'.state = "idle"
       /\ db.rewriting
       /\ ~hist'.rw.installed

\* C19: when a step of a rewrite fails the appender is out of rewrite mode,
\* no tmp file is left, the live log still begins with every record it held
\* and its handle still takes appends
C19_FailedRewriteKeepsLiveLog ==
    [][RewriteFailedStep
         => /\ ~aof'.rewriting
            /\ ~db'.rewriting
            /\ rw' = IdleWorker
            /\ IsPrefix(aofFile, aofFile')
            /\ ~aof'.stale]_vars

\* C20: while rdb.Save runs the live path holds the snapshot it held when
\* the Save began; when a step of it failed SAVE answers an error, no tmp
\* file is left and the live path still holds that snapshot
C20_SaveKeepsPreviousSnapshot ==
    /\ saving.pc # "idle" => rdbFile = saving.prev
    /\ (saving.pc = "idle" /\ saving.failed)
          => /\ isError(saving.res)
             /\ saving.tmp = "none"
             /\ rdbFile = saving.prev

\* C21: a process whose log holds a frame that fails to parse does not come
\* to serve: Load stops at that frame and the start fails
C21_DamagedLogFailsStartup ==
    phase = "serve" => ~(loadPos \in DOMAIN aofFile /\ IsBadFrame(aofFile[loadPos]))

\* C22: the file saved from a keyspace and the file saved after that file
\* was applied to an empty database are the same bytes
C22_SaveApplySaveIsIdentical ==
    hist.trip.done => hist.trip.first = hist.trip.second

\* C23: whatever calls of Close were made, on whichever components, none of
\* them panicked and the guarded body of each component ran at most once
C23_RepeatedCloseIsHarmless ==
    \A c \in Components \ {"router"} :
        /\ ~closers.of[c].panicked
        /\ closers.of[c].runs <= 1

InOps(i) == \E j \in DOMAIN ops : "id" \in DOMAIN ops[j] /\ ops[j].id = i

\* C24: an Exec called after db.closing was closed has returned ERR server
\* closed; a request left in db.ops by an executor that has exited has
\* resolved to ERR server closed if its Exec has returned, and otherwise its
\* Exec can take a step; and while the database is closing no Exec is stuck
C24_ExecAfterCloseIsRefused ==
    \A i \in 1..MaxClients :
        /\ execs[i].late => execs[i].pc = "done" /\ execs[i].res = ErrServerClosed
        /\ bgState = "exited" /\ InOps(i) /\ execs[i].pc = "done"
               => execs[i].res = ErrServerClosed
        /\ closing /\ execs[i].pc \in {"send", "wait", "blocked"}
               => ENABLED (ExecSend(i) \/ ExecWait(i) \/ ExecWake(i))

\* an Exec called during the Close was refused, and another request was left
\* in db.ops by the executor and resolved
C24_RefusedAndLeftBehind ==
    \E i, j \in 1..MaxClients :
        /\ execs[i].late /\ execs[i].pc = "done"
        /\ bgState = "exited" /\ InOps(j) /\ execs[j].pc = "done"

\* the executor takes a REWRITEAOF or BGREWRITEAOF from db.ops
RewriteIssued ==
    /\ ops # <<>>
    /\ ops' = Tail(ops)
    /\ ToLower(Head(ops).cmd.name) \in {"rewriteaof", "bgrewriteaof"}

\* C25: a worker of a rewrite exists only while the executor's rewriting flag
\* is set; a REWRITEAOF or BGREWRITEAOF executed while the flag is set
\* replies an error and changes neither the appender (its queue, its rewrite
\* mode, its rewrite buffer), nor the log, nor the worker, nor the flag; and
\* StartRewrite fails on an appender that is rewriting
C25_OneRewriteAtATime ==
    [][/\ rw.state # "idle" => db.rewriting
       /\ aof.rewriting => StartRewrite(World).err
       /\ RewriteIssued /\ db.rewriting
            => /\ isError(hist'.last.res)
               /\ aof' = aof
               /\ aofFile' = aofFile
               /\ rw' = rw
               /\ db'.rewriting]_vars

\* a rewrite command was refused while the worker of a background rewrite
\* was writing
C25_RewriteRefusedDuringRewrite ==
    /\ rw.state = "writing"
    /\ db.rewriting
    /\ aof.rewriting
    /\ ToLower(hist.last.cmd.name) \in {"rewriteaof", "bgrewriteaof"}
    /\ hist.last.res = MakeErrReply("ERR rewriting already in progress")

\* the executor takes the worker's result from aofRewriteDone
InstallerStep == rw.state = "done" /\ rw'.state = "idle"

\* C26: the executor's rewriting flag is set exactly from the acceptance of a
\* BGREWRITEAOF until the installer step of that rewrite; an installer step
\* is taken only for an accepted rewrite that has had none and clears the
\* flag, whether the rewrite is installed or not; and every accepted rewrite
\* eventually has its installer step
C26_StartedRewriteIsHandledOnce ==
    /\ [](db.rewriting <=> hist.rw.active)
    /\ [][InstallerStep => hist.rw.active /\ ~hist'.rw.active /\ ~db'.rewriting]_vars
    /\ (hist.rw.active ~> ~hist.rw.active)

\* the installer step of a rewrite that failed has been taken
C26_FailedRewriteHandled ==
    /\ scn.fault # ""
    /\ hist.rw.base # <<>>
    /\ ~hist.rw.active
    /\ ~db.rewriting
    /\ rw.state = "idle"

PosIn(s, k) == CHOOSE i \in DOMAIN s : s[i] = k

\* a step of the cache on its own
CacheStep(op) == hist'.ncmds = hist.ncmds + 1 /\ hist'.last.op \in op

\* the frequency of k after the Add of key has stored or promoted key, before
\* anything is evicted
FreqInAdd(k, key) ==
    IF k # key THEN db.freq[k] ELSE IF key \in DOMAIN db.freq THEN db.freq[key] + 1 ELSE 1

\* C27: every entry an LFU Add evicts has, among the entries stored at that
\* moment, the lowest frequency, and among those of that frequency it is the
\* one added or accessed longest ago; a new entry starts at frequency 1, a
\* Get raises the frequency of its entry by one, and neither changes the
\* frequency of another entry
C27_LfuEvictsColdestThenOldest ==
    [][db.policy = "lfu" =>
        LET key == hist'.last.cmd.key
            used == Touched(hist.used, key)
            ev == db'.ev
        IN /\ CacheStep({"Add", "hung"}) =>
                /\ \A i \in DOMAIN ev :
                      \A k \in DOMAIN db'.vals \cup {ev[j] : j \in i..Len(ev)} :
                          \/ FreqInAdd(ev[i], key) < FreqInAdd(k, key)
                          \/ /\ FreqInAdd(ev[i], key) = FreqInAdd(k, key)
                             /\ PosIn(used, ev[i]) <= PosIn(used, k)
                /\ \A k \in DOMAIN db'.vals : db'.freq[k] = FreqInAdd(k, key)
           /\ CacheStep({"Get"}) =>
                /\ db'.freq[key] = db.freq[key] + 1
                /\ \A k \in DOMAIN db'.vals \ {key} : db'.freq[k] = db.freq[k]]_vars

\* an Add evicted the entry it had just stored, at frequency 1, and kept an
\* entry used longer ago whose frequency is higher
C27_NewcomerEvictedBeforeHotEntry ==
    /\ db.policy = "lfu"
    /\ hist.last.op = "Add"
    /\ db.ev = <<hist.last.cmd.key>>
    /\ \E k \in DOMAIN db.vals : db.freq[k] >= 2

\* the cache of D: what a later Add reads
CacheOf(D) ==
    [policy |-> D.policy, maxBytes |-> D.maxBytes, nbytes |-> D.nbytes, vals |-> D.vals,
     order |-> D.order, freq |-> D.freq, buckets |-> D.buckets, minFreq |-> D.minFreq]

\* the executor takes from db.ops a command that looks its key up with Peek
\* only: TTL, PERSIST, EXPIRE, PEXPIREAT, or a DEL of keys that are not stored
PeekStep ==
    /\ ops # <<>>
    /\ ops' = Tail(ops)
    /\ LET cmd == Head(ops).cmd
       IN \/ ToLower(cmd.name) \in {"ttl", "persist", "expire", "pexpireat"}
          \/ /\ ToLower(cmd.name) = "del"
             /\ \A k \in {cmd.key} \cup Range(cmd.args) : k \notin DOMAIN db.vals

\* C28: a command that only peeks leaves the stored keys in their recency
\* order and at their frequencies; when it removes nothing the cache is as it
\* was, and an Add that follows evicts the keys it would have evicted without
\* the command
C28_PeekLeavesEvictionOrder ==
    [][PeekStep =>
        /\ db'.order = Kept(db.order, db')
        /\ \A k \in DOMAIN db'.freq : k \in DOMAIN db.freq /\ db'.freq[k] = db.freq[k]
        /\ \A f \in DOMAIN db'.buckets : db'.buckets[f] = Kept(db.buckets[f], db')
        /\ DOMAIN db'.vals = DOMAIN db.vals =>
              /\ CacheOf(db') = CacheOf(db)
              /\ \A k \in {"k1", "k2", "k3"} :
                    Add([db' EXCEPT !.ev = <<>>], k, StringData("0123456789")).ev
                        = Add([db EXCEPT !.ev = <<>>], k, StringData("0123456789")).ev]_vars

\* k1 was stored before k2 and then looked up by a PEXPIREAT, and the SET of
\* k3 evicted k1
C28_PeekedKeyEvictedFirst ==
    /\ hist.acked = <<Cmd("set", "k1", <<"0123456789">>, <<>>),
                      Cmd("set", "k2", <<"0123456789">>, <<>>),
                      Cmd("pexpireat", "k1", <<>>, Num(1000)),
                      Cmd("set", "k3", <<"0123456789">>, <<>>)>>
    /\ hist.last.ev = <<"k1">>
    /\ "k2" \in DOMAIN db.vals

\* the keys in the lists the eviction takes its victims from
Listed(D) ==
    IF D.policy = "lfu" THEN UNION {Range(D.buckets[f]) : f \in DOMAIN D.buckets}
    ELSE Range(D.order)

\* C30: no command has left the executor in an eviction loop that cannot end;
\* the tracked total is within a non-zero budget, every stored key is in the
\* list its eviction takes victims from (so an iteration of the loop removes
\* an entry whenever one is stored), and an Add of any key and value to the
\* cache as it is returns
C30_AddReturns ==
    /\ ~db.hung
    /\ db.maxBytes # 0 => db.nbytes <= db.maxBytes
    /\ Listed(db) = DOMAIN db.vals
    /\ \A f \in DOMAIN db.buckets : db.buckets[f] # <<>>
    /\ \A k \in {"k1", "k4", "k5"} :
          \A v \in {StringData("0123456789"), ListData(<<"x", "y", "z">>)} :
              ~Add(db, k, v).hung

\* the loop of an Add ran three times, evicted three entries and ended
C30_LoopRanThreeTimes ==
    /\ Len(hist.last.ev) = 3
    /\ db.nbytes <= db.maxBytes
    /\ DOMAIN db.vals # {}

---------------------------------------------------------------------------
(* A client connection of the server.  The bytes of the stream are kept as *)
(* the units the parser reads them in: a line (its prefix byte and the     *)
(* text before CRLF) or the n bytes of a bulk followed by CRLF.             *)

Line(prefix, text) == [t |-> "line", prefix |-> prefix, text |-> text, s |-> ""]
Body(s) == [t |-> "body", prefix |-> "", text |-> <<>>, s |-> s]

\* argv of a command, and the command of an argv
ArgsOf(cmd) == <<cmd.name>> \o (IF cmd.key = "" THEN <<>> ELSE <<cmd.key>>) \o cmd.args
CmdOf(args) ==
    Cmd(args[1], IF Len(args) > 1 THEN args[2] ELSE "", SubSeq(args, 3, Len(args)), <<>>)

\* MakeMultiBulkReply(args).ToBytes(): the header of the array, then every
\* argument as a bulk
RECURSIVE Bulks(_)
Bulks(args) ==
    IF args = <<>> THEN <<>>
    ELSE <<Line("$", FormatInt(BLen(Head(args)))), Body(Head(args))>> \o Bulks(Tail(args))

Frame(args) == <<Line("*", FormatInt(Len(args)))>> \o Bulks(args)

\* what one round of the loop of parse0 makes of the buffered input buf:
\* ready is FALSE when a read would block for more input; else data and err
\* are the Payload and rest is the input left; panic is TRUE when the round
\* ended in a run-time panic of the goroutine instead
Starved == [ready |-> FALSE, data |-> NoReply, err |-> "", rest |-> <<>>, panic |-> FALSE]
Parsed(data, rest) ==
    [ready |-> TRUE, data |-> data, err |-> "", rest |-> rest, panic |-> FALSE]
ParseErr(err, rest) ==
    [ready |-> TRUE, data |-> NoReply, err |-> err, rest |-> rest, panic |-> FALSE]
Panicked(rest) ==
    [ready |-> TRUE, data |-> NoReply, err |-> "", rest |-> rest, panic |-> TRUE]

\* a faulty parseBulk: ReadFull of n bytes, the CRLF after them is left in
\* the stream and ends the next readLine at once
parseBulkShort(h, buf) ==
    LET p == ParseInt(h.text)
    IN IF ~p.ok THEN ParseErr("invalid syntax", buf)
       ELSE IF p.n = -1 THEN Parsed(MakeBulkReply(""), buf)
       ELSE IF buf = <<>> THEN Starved
       ELSE IF Head(buf).t # "body" \/ BLen(Head(buf).s) # p.n
       THEN ParseErr("protocol error: bad bulk string format", Tail(buf))
       ELSE Parsed(MakeBulkReply(Head(buf).s), <<Line("", <<>>)>> \o Tail(buf))

\* parseBulk after its header h: ReadFull of n+2 bytes, the last two CRLF.
\* A length below -1 panics: make([]byte, n+2) of a negative length, and for
\* -2 the index of body[n]
parseBulk(h, buf) ==
    LET p == ParseInt(h.text)
    IN IF ~p.ok THEN ParseErr("invalid syntax", buf)
       ELSE IF p.n = -1 THEN Parsed(MakeBulkReply(""), buf)
       ELSE IF p.n < 0 THEN Panicked(buf)
       ELSE IF buf = <<>> THEN Starved
       ELSE IF Head(buf).t # "body" \/ BLen(Head(buf).s) # p.n
       THEN ParseErr("protocol error: bad bulk string format", Tail(buf))
       ELSE Parsed(MakeBulkReply(Head(buf).s), Tail(buf))

\* the loop of parseArray with n elements to go and lines read so far;
\* line[0] of an element line that is empty panics
RECURSIVE parseArrayLoop(_, _, _)
parseArrayLoop(buf, n, lines) ==
    IF n <= 0 THEN Parsed(MakeMultiBulkReply(lines), buf)
    ELSE IF buf = <<>> THEN Starved
    ELSE IF Head(buf).t # "line" THEN ParseErr("protocol error: no CRLF", Tail(buf))
    ELSE IF Head(buf).prefix = "" THEN Panicked(Tail(buf))
    ELSE IF Head(buf).prefix # "$"
    THEN ParseErr("protocol error: expected bulk string in array", Tail(buf))
    ELSE LET b == parseBulk(Head(buf), Tail(buf))
         IN IF ~b.ready \/ b.err # "" \/ b.panic THEN b
            ELSE parseArrayLoop(b.rest, n - 1, Append(lines, b.data.s))

\* parseArray after its header h: a count of -1 gives a nil *MultiBulkReply
\* and no error, a count below -1 panics in make([][]byte, 0, n)
parseArray(h, buf) ==
    LET p == ParseInt(h.text)
    IN IF ~p.ok THEN ParseErr("invalid syntax", buf)
       ELSE IF p.n = -1 THEN Parsed(NilMultiBulk, buf)
       ELSE IF p.n < 0 THEN Panicked(buf)
       ELSE parseArrayLoop(buf, p.n, <<>>)

\* parse0, one round: readLine, then parseLine by the prefix of the line
parseNext(buf) ==
    IF buf = <<>> THEN Starved
    ELSE LET h == Head(buf)
         IN IF h.t # "line" THEN ParseErr("protocol error: no CRLF", Tail(buf))
            ELSE IF h.prefix = "" THEN ParseErr("empty line", Tail(buf))
            ELSE CASE h.prefix = "*" -> parseArray(h, Tail(buf))
                   [] h.prefix = "$" -> parseBulk(h, Tail(buf))
                   [] h.prefix = "+" -> Parsed(MakeStatusReply(h.text), Tail(buf))
                   [] h.prefix = "-" -> Parsed(MakeErrReply(h.text), Tail(buf))
                   [] h.prefix = ":" ->
                        IF ParseInt(h.text).ok
                        THEN Parsed(MakeIntReply(ParseInt(h.text).n), Tail(buf))
                        ELSE ParseErr("invalid syntax", Tail(buf))
                   [] OTHER -> ParseErr("protocol error", Tail(buf))


\* strings.EqualFold(args[0], "shutdown")
IsShutdown(args) == args # <<>> /\ args[1] \in {"shutdown", "SHUTDOWN", "Shutdown"}

\* the client writes the frame of one more command
ConnSend(cmd) ==
    /\ phase = "serve"
    /\ Len(conn.sent) < MaxPipeline
    /\ conn' = [conn EXCEPT !.sent = Append(@, cmd), !.wire = @ \o Frame(ArgsOf(cmd))]
    /\ UNCHANGED <<db, now, ops, closing, bgState, aof, aofFile, rdbFile, rw, phase, loadPos,
                   hist, scn, saving, closers, execs, srv, clusterVars>>

\* an unrecovered panic of a goroutine ends the process
Crashed == conn.parser = "panicked" \/ conn.handler = "panicked"

\* the next bytes of the stream arrive at the server, in whatever pieces
ConnDeliver ==
    /\ phase = "serve"
    /\ ~Crashed
    /\ conn.wire # <<>>
    /\ conn.handler = "run"
    /\ conn' = [conn EXCEPT !.wire = Tail(@), !.inbuf = Append(@, Head(conn.wire))]
    /\ UNCHANGED <<db, now, ops, closing, bgState, aof, aofFile, rdbFile, rw, phase, loadPos,
                   hist, scn, saving, closers, execs, srv, clusterVars>>

\* parse0: one round of the loop, up to ch <- payload; it returns after a
\* Payload with an error, and a panic in the round is recovered nowhere
ConnParse ==
    /\ phase = "serve"
    /\ ~Crashed
    /\ conn.parser = "run"
    /\ conn.ch = <<>>
    /\ parseNext(conn.inbuf).ready
    /\ LET r == parseNext(conn.inbuf)
           payload == [data |-> r.data, err |-> r.err]
       IN conn' = IF r.panic THEN [conn EXCEPT !.inbuf = r.rest, !.parser = "panicked"]
                  ELSE [conn EXCEPT !.inbuf = r.rest, !.ch = <<payload>>,
                                    !.yielded = Append(@, payload),
                                    !.parser = IF r.err # "" THEN "returned" ELSE @]
    /\ UNCHANGED <<db, now, ops, closing, bgState, aof, aofFile, rdbFile, rw, phase, loadPos,
                   hist, scn, saving, closers, execs, srv, clusterVars>>

\* conn.Write(reply.ToBytes()), and whether the loop goes on
Wrote(reply, handler) ==
    [conn EXCEPT !.ch = <<>>, !.out = Append(@, reply), !.handler = handler]

\* handleConnection: one round of the loop over the Payloads.  Db.Exec is
\* called with the executor running and no other client, so the request is
\* served before Exec returns.
ConnHandle ==
    /\ phase = "serve"
    /\ ~Crashed
    /\ conn.handler = "run"
    /\ conn.ch # <<>>
    /\ LET payload == Head(conn.ch)
           data == payload.data
       IN IF payload.err = "" /\ data.kind = "multi" /\ data.a # <<>> /\ ~IsShutdown(data.a)
          THEN /\ Executed(Serve(World, Request(CmdOf(data.a)), now), CmdOf(data.a), "cmd")
               /\ conn' = Wrote(hist'.last.res, "run")
          ELSE /\ conn' =
                    IF payload.err # "" THEN Wrote(MakeErrReply(payload.err), "returned")
                    ELSE IF data = NilMultiBulk
                    THEN [conn EXCEPT !.ch = <<>>, !.handler = "panicked"]
                    ELSE IF data.kind # "multi"
                    THEN Wrote(MakeErrReply("protocol error: expected array"), "run")
                    ELSE IF IsShutdown(data.a) THEN Wrote(OkReply, "returned")
                    ELSE Wrote(MakeErrReply("unknown error"), "run")
               /\ UNCHANGED <<db, aof, aofFile, rdbFile, rw, hist>>
    /\ UNCHANGED <<now, ops, closing, bgState, phase, loadPos, scn, saving, closers, execs,
                   srv, clusterVars>>

\* one client that pipelines up to MaxPipeline commands on one connection
ScnPipeline ==
    Scenario("pipeline", "lru", 0,
             {Cmd("ping", "", <<>>, <<>>), Cmd("set", "k1", <<"aa">>, <<>>),
              Cmd("get", "k1", <<>>, <<>>), Cmd("SHUTDOWN", "", <<>>, <<>>)},
             {}, 0, FALSE, {})

InitPipeline == InitWith(ScnPipeline)

NextPipeline ==
    \/ \E cmd \in scn.cmds : ConnSend(cmd)
    \/ ConnDeliver
    \/ ConnParse
    \/ ConnHandle
    \/ HandleAof

SpecPipeline == InitPipeline /\ [][NextPipeline]_vars

\* the replies of a database that starts as W and executes cmds one after
\* the other at the instant t; SHUTDOWN is answered by the server with OK
RECURSIVE Replies(_, _, _)
Replies(W, cmds, t) ==
    IF cmds = <<>> THEN <<>>
    ELSE IF IsShutdown(ArgsOf(Head(cmds))) THEN <<OkReply>> \o Replies(W, Tail(cmds), t)
    ELSE LET r == execInternal(W, Head(cmds), t)
         IN <<r.res>> \o Replies(r.W, Tail(cmds), t)

\* the world of a process started on no files
FirstWorld ==
    [db |-> NewStandaloneDBWithConfig(scn.policy, scn.maxBytes), aof |-> NewAofHandler,
     file |-> <<>>, rdb |-> <<>>, rw |-> IdleWorker, rdbOn |-> scn.rdbOn,
     fault |-> scn.fault]

\* the commands sent up to and including the first SHUTDOWN
UpToShutdown(cmds) ==
    LET S == {i \in DOMAIN cmds : IsShutdown(ArgsOf(cmds[i]))}
    IN IF S = {} THEN cmds ELSE SubSeq(cmds, 1, CHOOSE i \in S : \A j \in S : i <= j)

\* everything the client has sent was received and handled, or the handler
\* has left its loop
ConnQuiet ==
    \/ conn.handler # "run"
    \/ conn.wire = <<>> /\ conn.inbuf = <<>> /\ conn.ch = <<>>

PayloadOf(cmd) == [data |-> MakeMultiBulkReply(ArgsOf(cmd)), err |-> ""]

\* C29 (as stated): for a connection that sends N well-formed command arrays
\* back-to-back, the parser yields exactly N Payloads in order and the
\* server writes exactly N replies, the i-th being the reply to the i-th
\* command.
C29_AsStated ==
    ConnQuiet =>
        /\ conn.yielded = [i \in DOMAIN conn.sent |-> PayloadOf(conn.sent[i])]
        /\ conn.out = Replies(FirstWorld, conn.sent, StartTime)

\* C29: the Payloads the parser yields are those of the commands sent, in
\* order, and the replies written are the replies to the commands sent, in
\* order, up to and including the first SHUTDOWN: once everything sent has
\* been handled there is one reply for each of those commands and none for
\* a command after the SHUTDOWN; without a SHUTDOWN, N commands yield N
\* Payloads and N replies.
C29_PipelineRepliesInOrder ==
    LET served == UpToShutdown(conn.sent)
        want == Replies(FirstWorld, served, StartTime)
    IN /\ Len(conn.yielded) <= Len(conn.sent)
       /\ \A i \in DOMAIN conn.yielded : conn.yielded[i] = PayloadOf(conn.sent[i])
       /\ Len(conn.out) <= Len(want)
       /\ \A i \in DOMAIN conn.out : conn.out[i] = want[i]
       /\ conn.handler # "panicked"
       /\ ConnQuiet =>
              /\ Len(conn.out) = Len(served)
              /\ served = conn.sent => Len(conn.yielded) = Len(conn.sent)

\* three commands were pipelined and three replies written, the last one
\* showing the value the first command stored
C29_ThreeRepliesInOrder ==
    /\ conn.sent = <<Cmd("set", "k1", <<"aa">>, <<>>), Cmd("ping", "", <<>>, <<>>),
                     Cmd("get", "k1", <<>>, <<>>)>>
    /\ conn.out = <<OkReply, MakeStatusReply("PONG"), MakeBulkReply("aa")>>
    /\ Len(conn.yielded) = 3

\* a SHUTDOWN was answered and the command pipelined behind it was not
C29_NoReplyAfterShutdown ==
    /\ conn.sent = <<Cmd("SHUTDOWN", "", <<>>, <<>>), Cmd("ping", "", <<>>, <<>>)>>
    /\ conn.wire = <<>>
    /\ conn.handler = "returned"
    /\ conn.out = <<OkReply>>


---------------------------------------------------------------------------
(* A snapshot file and an append log together *)

\* a list and a string, SAVE, and a graceful restart under the same budget
ScnSnapLoad ==
    Scenario("snapload", "lru", 0,
             {Cmd("rpush", "k1", <<"x">>, <<>>), Cmd("set", "k2", <<"aa">>, <<>>),
              Cmd("save", "", <<>>, <<>>)},
             {0}, 1, TRUE, {})

InitSnapLoad == InitWith(ScnSnapLoad)

NextSnapLoad ==
    \/ \E cmd \in scn.cmds : Exec(cmd)
    \/ Background
    \/ HandleAof
    \/ Close
    \/ DrainExit
    \/ CloseAof
    \/ \E maxBytes \in scn.restartMax : Restart(maxBytes)
    \/ LoadRdb
    \/ LoadAof
    \/ LoadDone

SpecSnapLoad == InitSnapLoad /\ [][NextSnapLoad]_vars

\* C31: with a snapshot file and an append log configured, after SAVE and a
\* graceful restart, Load (the snapshot applied, then the log replayed)
\* gives every key the value it had before the restart; lists have the same
\* elements and the same length.
C31_SnapshotThenLogRestoresKeyspace ==
    (JustLoaded /\ hist.sameCfg /\ scn.rdbOn /\ rdbFile # <<>>) =>
        Visible(db, now) = hist.atClose

\* the list k1 = [x] was saved and logged, and after the restart it is [x, x]
C31_ListDoubledAfterRestart ==
    /\ JustLoaded
    /\ rdbFile # <<>>
    /\ "k1" \in DOMAIN hist.atClose
    /\ "k1" \in DOMAIN Visible(db, now)
    /\ hist.atClose["k1"].value = ListData(<<"x">>)
    /\ Visible(db, now)["k1"].value = ListData(<<"x", "x">>)


\* the last step of the executor was a SET answered OK whose key and value
\* fit the byte budget on their own
SetThatFits ==
    /\ hist.last.op = "cmd"
    /\ ToLower(hist.last.cmd.name) = "set"
    /\ hist.last.res = OkReply
    /\ Len(hist.last.cmd.args) = 1
    /\ db.maxBytes >= BLen(hist.last.cmd.key) + BLen(hist.last.cmd.args[1])

\* C32: when max-bytes >= len(key) + len(value), after SET key value has
\* returned OK an immediately following GET key returns value: the Add of a
\* key never evicts that same key, for LRU and LFU and whatever else is
\* stored.
C32_SetThatFitsIsReadBack ==
    SetThatFits =>
        /\ hist.last.cmd.key \notin Range(hist.last.ev)
        /\ get(db, Cmd("get", hist.last.cmd.key, <<>>, <<>>), now).res
               = MakeBulkReply(hist.last.cmd.args[1])

\* LRU: SET k1 of 12 bytes under a budget of 40 was answered OK, the Add
\* evicted k1 itself and the cache is empty
C32_SetEvictedItsOwnKey ==
    /\ SetThatFits
    /\ db.policy = "lru"
    /\ hist.last.cmd.key = "k1"
    /\ hist.last.ev = <<"k1">>
    /\ db.vals = <<>>
    /\ get(db, Cmd("get", "k1", <<>>, <<>>), now).res = NullBulkReply

\* LFU: SET k1 was answered OK and the Add evicted k1, the entry of the
\* lowest frequency, while the list stored before it stays
C32_LfuEvictedTheNewKey ==
    /\ SetThatFits
    /\ db.policy = "lfu"
    /\ hist.last.cmd.key = "k1"
    /\ hist.last.ev = <<"k1">>
    /\ DOMAIN db.vals = {"k4"}


---------------------------------------------------------------------------
(* Replay of a log while the clock runs *)

\* a hash with a TTL that is written again before the TTL is due, a restart,
\* and a clock that can pass the TTL while Load is under way
ScnReplay ==
    Scenario("replay", "lru", 0,
             {Cmd("hset", "k1", <<"f1", "aa">>, <<>>), Cmd("expire", "k1", <<>>, Num(1)),
              Cmd("hset", "k1", <<"f2", "bb">>, <<>>)},
             {0}, 1, FALSE, {TicksPerSec + 1})

InitReplay == InitWith(ScnReplay)

NextReplay ==
    \/ \E cmd \in scn.cmds : Exec(cmd)
    \/ Background
    \/ HandleAof
    \/ ActiveExpire
    \/ \E d \in scn.ticks : Tick(d)
    \/ Close
    \/ DrainExit
    \/ CloseAof
    \/ \E maxBytes \in scn.restartMax : Restart(maxBytes)
    \/ LoadRdb
    \/ LoadAof
    \/ LoadDone

SpecReplay == InitReplay /\ [][NextReplay]_vars

\* C33: while Load replays the append log no replayed command appends a
\* record to the log: no replay step passes a frame to AddAof, and nothing
\* is queued for the log as long as Load runs.
C33_ReplayAppendsNothing ==
    /\ hist.last.op = "replay" => hist.last.frames = <<>>
    /\ phase = "load" => aof.aofChan = <<>>

\* Load has replayed a HSET of k1 after the TTL set by the PEXPIREAT replayed
\* before it had passed, and "del k1" is queued for the log
C33_ReplayedHsetLoggedDel ==
    /\ phase = "load"
    /\ hist.last.op = "replay"
    /\ ToLower(hist.last.cmd.name) = "hset"
    /\ hist.last.frames = <<Cmd("del", "k1", <<>>, <<>>)>>
    /\ aof.aofChan = <<Cmd("del", "k1", <<>>, <<>>)>>


---------------------------------------------------------------------------
(* The order of the append log under several clients *)

\* two clients whose writes evict each other's key, around a Close
ScnOrder ==
    Scenario("order", "lru", 14,
             {Cmd("set", "k1", <<"0123456789">>, <<>>),
              Cmd("set", "k2", <<"0123456789">>, <<>>), Cmd("get", "k1", <<>>, <<>>)},
             {}, 0, FALSE, {ExecTimeout})

InitOrder == InitWith(ScnOrder)

SpecOrder == InitOrder /\ [][NextExecClose]_vars

\* the records written and queued, in order
Log == aofFile \o aof.aofChan

\* the executor takes the request at the head of db.ops
ExecutorStep == ops # <<>> /\ ops' = Tail(ops)

\* the records of the request req answered by res after evicting ev
RecordsOf(req, res, ev) ==
    IF isError(res) \/ ~isWriteCommand(req.cmd) THEN <<>>
    ELSE <<req.cmd>> \o DelFrames(ev)

\* C34: the records of the append log are in the order in which the
\* executor applied the commands, whichever client sent them: a step of the
\* executor takes the oldest request of db.ops, applies it, and appends its
\* record followed by the DEL of every key it evicted behind all earlier
\* records; no other step adds or reorders records; and a client holds the
\* reply to a write only when the record is queued or written.
C34_LogFollowsExecutorOrder ==
    /\ [][IF ExecutorStep
          THEN /\ hist'.last.cmd = Head(ops).cmd
               /\ db' = execInternal([World EXCEPT !.db.ev = <<>>, !.db.emit = <<>>],
                                      Head(ops).cmd, now).W.db
               /\ Log' = Log \o RecordsOf(Head(ops), hist'.last.res, hist'.last.ev)
               /\ execs'[Head(ops).id].result = <<hist'.last.res>>
          ELSE Log' = Log]_vars
    /\ [](\A i \in 1..MaxClients :
            /\ execs[i].result # <<>>
            /\ ~isError(execs[i].result[1])
            /\ isWriteCommand(execs[i].cmd)
            => \E n \in DOMAIN Log : Log[n] = execs[i].cmd)

\* both clients were answered OK, the second write evicted the key of the
\* first, and the log holds the three records in the executor's order
C34_TwoClientsLoggedInOrder ==
    /\ \A i \in 1..MaxClients : execs[i].pc = "done" /\ execs[i].res = OkReply
    /\ execs[1].cmd = Cmd("set", "k1", <<"0123456789">>, <<>>)
    /\ execs[2].cmd = Cmd("set", "k2", <<"0123456789">>, <<>>)
    /\ Log = <<execs[2].cmd, execs[1].cmd, Cmd("DEL", "k2", <<>>, <<>>)>>


\* C35: if Exec returns ERR server closed or ERR timeout for a command, the
\* command was not applied to the in-memory state and no record of it was
\* appended to the log: the executor has not run the request (req.result is
\* empty), in every interleaving of Exec with Close and with the executor.
C35_RefusedCommandNotApplied ==
    \A i \in 1..MaxClients :
        (execs[i].pc = "done" /\ execs[i].res \in {ErrServerClosed, ErrTimeout}) =>
            execs[i].result = <<>>

\* Exec returned ERR server closed for SET k1 aa, and the drain loop has
\* executed the request: k1 is stored and the record is in the log
C35_ClosedReplyButApplied ==
    /\ execs[1].pc = "done"
    /\ execs[1].res = ErrServerClosed
    /\ execs[1].cmd = Cmd("set", "k1", <<"aa">>, <<>>)
    /\ execs[1].result = <<OkReply>>
    /\ execs[2].pc = "idle"
    /\ "k1" \in DOMAIN db.vals
    /\ Log = <<execs[1].cmd>>

\* Exec returned ERR timeout for SET k1 aa, and the executor has run the
\* request after that
C35_TimeoutReplyButApplied ==
    /\ execs[1].pc = "done"
    /\ execs[1].res = ErrTimeout
    /\ execs[1].cmd = Cmd("set", "k1", <<"aa">>, <<>>)
    /\ execs[1].result = <<OkReply>>
    /\ execs[2].pc = "idle"
    /\ "k1" \in DOMAIN db.vals


---------------------------------------------------------------------------
(* SAVE and BGSAVE *)

ScnBgsave ==
    Scenario("bgsave", "lru", 0,
             {Cmd("set", "k1", <<"aa">>, <<>>), Cmd("save", "", <<>>, <<>>),
              Cmd("bgsave", "", <<>>, <<>>)},
             {}, 0, TRUE, {})

InitBgsave == InitWith(ScnBgsave)

NextBgsave ==
    \/ \E cmd \in scn.cmds : Exec(cmd)
    \/ ServeData
    \/ HandleAof
    \/ SaveBegin
    \/ SaveOpen
    \/ SaveWrite
    \/ SaveRemove
    \/ SaveRename
    \/ BgsaveBegin
    \/ BgsaveWorker

SpecBgsave == InitBgsave /\ [][NextBgsave]_vars

\* C36: at most one write of the snapshot file and its tmp file is in
\* progress: a BGSAVE executed while the goroutine of an earlier one is
\* still at work returns an error, and no SAVE is inside rdb.Save while that
\* goroutine is.
C36_OneSnapshotWriteAtATime ==
    /\ saving.wpc # "idle" => saving.rdbSaving
    /\ saving.bgBusy => isError(saving.bgres)
    /\ ~(saving.pc # "idle" /\ saving.wpc \in {"open", "write", "remove", "rename"})

\* the goroutine of BGSAVE and the rdb.Save of a SAVE both have the tmp
\* file open for writing
C36_SaveWritesDuringBgsave ==
    /\ saving.rdbSaving
    /\ saving.wpc = "write"
    /\ saving.pc = "write"

\* a second BGSAVE was refused while the goroutine of the first was writing
C36_SecondBgsaveRefused ==
    /\ saving.wpc = "write"
    /\ saving.bgBusy
    /\ isError(saving.bgres)


---------------------------------------------------------------------------
(* Router.Exec after Router.Close *)

NextRouterClose ==
    \/ \E c \in Components : CallClose(c)
    \/ \E local, dialOk \in BOOLEAN : RouterExecCall(local, dialOk)

SpecRouterClose == InitCloses /\ [][NextRouterClose]_vars

\* C37: after Router.Close has returned, Exec creates no new peer client,
\* opens no peer connection and forwards no command, and every Exec on the
\* closed router returns an error reply.
C37_ClosedRouterForwardsNothing ==
    /\ closers.late.made = 0
    /\ closers.late.dials = 0
    /\ closers.late.forwards = 0
    /\ closers.late.answered = 0

\* after Router.Close an Exec for a key of the peer made a new PeerClient,
\* dialled the peer, forwarded the command and returned the peer's OK
C37_ForwardedAfterClose ==
    /\ closers.of["router"].runs = 1
    /\ closers.of["db"].once
    /\ closers.execs = 1
    /\ closers.late = [made |-> 1, dials |-> 1, forwards |-> 1, answered |-> 1,
                       res |-> OkReply]
    /\ closers.peers = {"peer"}


\* ---- Server.Start, Server.Shutdown and the connection handlers ----

serverRest ==
    <<db, now, ops, closing, bgState, aof, aofFile, rdbFile, rw, phase, loadPos, hist, scn,
      saving, closers, execs, conn, clusterVars>>

ShutdownBegun == srv.sd # "idle"

\* Start: net.Listen and s.listener = listener; a bind failure returns
SrvListen(ok) ==
    /\ srv.start = "new"
    /\ srv' = IF ok THEN [srv EXCEPT !.start = "accept", !.field = TRUE, !.listener = "open"]
              ELSE [srv EXCEPT !.start = "returned"]
    /\ UNCHANGED serverRest

\* listener.Accept returns the connection of a client that dialled
SrvAccept(c) ==
    /\ srv.start = "accept"
    /\ srv.listener = "open"
    /\ srv.sock[c] = "none"
    /\ srv' = [srv EXCEPT !.start = "got", !.cur = c, !.sock[c] = "open",
                          !.late = IF ShutdownBegun THEN @ \cup {c} ELSE @]
    /\ UNCHANGED serverRest

\* listener.Accept fails on the closed listener; s.closing is closed, Start
\* returns nil
SrvAcceptClosed ==
    /\ srv.start = "accept"
    /\ srv.listener = "closed"
    /\ srv.closing
    /\ srv' = [srv EXCEPT !.start = "returned"]
    /\ UNCHANGED serverRest

\* s.trackConn(conn)
SrvTrack ==
    /\ srv.start = "got"
    /\ srv' = [srv EXCEPT !.start = "tracked", !.conns = @ \cup {srv.cur}]
    /\ UNCHANGED serverRest

\* s.wg.Add(1) and go handleConnection(conn); Start is back in Accept
SrvSpawn ==
    /\ srv.start = "tracked"
    /\ srv' = [srv EXCEPT !.start = "accept", !.wg = @ + 1, !.handler[srv.cur] = "running",
                          !.cur = ""]
    /\ UNCHANGED serverRest

\* the client of a connection hangs up: its handler will read EOF
ClientHangup(c) ==
    /\ srv.sock[c] = "open"
    /\ ~srv.hung[c]
    /\ srv' = [srv EXCEPT !.hung[c] = TRUE]
    /\ UNCHANGED serverRest

\* handleConnection reads a command of an open connection and writes the
\* reply of s.Db.Exec
HandlerServe(c) ==
    /\ srv.handler[c] = "running"
    /\ srv.sock[c] = "open"
    /\ ~srv.hung[c]
    /\ c \notin srv.served
    /\ ShutdownBegun
    /\ srv' = [srv EXCEPT !.served = @ \cup {c}]
    /\ UNCHANGED serverRest

\* handleConnection returns on EOF or on the read error of a closed
\* connection: untrackConn, conn.Close, wg.Done
HandlerExit(c) ==
    /\ srv.handler[c] = "running"
    /\ srv.sock[c] = "closed" \/ srv.hung[c]
    /\ srv' = [srv EXCEPT !.handler[c] = "exited", !.conns = @ \ {c}, !.sock[c] = "closed",
                          !.wg = @ - 1]
    /\ UNCHANGED serverRest

\* Shutdown: closeOnce.Do(close(s.closing); s.listener.Close() when the
\* field is set; Close of every tracked connection), and the goroutine of
\* wg.Wait is started
ShutdownBegin ==
    /\ srv.sd = "idle"
    /\ srv' = [srv EXCEPT !.sd = "wait", !.closing = TRUE,
                          !.listener = IF srv.field THEN "closed" ELSE @,
                          !.sock = [c \in Conns |-> IF c \in srv.conns THEN "closed" ELSE @[c]]]
    /\ UNCHANGED serverRest

\* s.wg.Wait() returns on a counter of zero and done is closed
WaitDone ==
    /\ srv.sd = "wait"
    /\ ~srv.done
    /\ srv.wg = 0
    /\ srv' = [srv EXCEPT !.done = TRUE]
    /\ UNCHANGED serverRest

\* the deadline of ctx passes
CtxDone ==
    /\ srv.sd = "wait"
    /\ ~srv.expired
    /\ srv' = [srv EXCEPT !.expired = TRUE]
    /\ UNCHANGED serverRest

\* the select of Shutdown takes done or ctx.Done(), and s.Db.Close()
ShutdownClose ==
    /\ srv.sd = "wait"
    /\ srv.done \/ srv.expired
    /\ srv' = [srv EXCEPT !.sd = "returned", !.dbClosed = TRUE,
                          !.atClose = [live |-> {c \in Conns : srv.handler[c] = "running"},
                                       expired |-> srv.expired]]
    /\ UNCHANGED serverRest

InitServer ==
    /\ NoCluster
    /\ InitStandalone(Scenario("server", "lru", 0, {}, {}, 0, FALSE, {}), "server")

NextServer ==
    \/ \E ok \in BOOLEAN : SrvListen(ok)
    \/ \E c \in Conns : SrvAccept(c)
    \/ SrvAcceptClosed
    \/ SrvTrack
    \/ SrvSpawn
    \/ \E c \in Conns : ClientHangup(c)
    \/ \E c \in Conns : HandlerServe(c)
    \/ \E c \in Conns : HandlerExit(c)
    \/ ShutdownBegin
    \/ WaitDone
    \/ CtxDone
    \/ ShutdownClose

SpecServer == InitServer /\ [][NextServer]_vars

\* C38: Shutdown closes the database only after every connection handler has
\* exited or the deadline of ctx has passed, and once Shutdown has begun no
\* connection is accepted and served.
C38_ShutdownWaitsAndStopsServing ==
    /\ (srv.dbClosed /\ ~srv.atClose.expired) => srv.atClose.live = {}
    /\ \A c \in srv.late : srv.handler[c] = "none"

\* Shutdown ran before Start had listened: the listener of Start is never
\* closed, and a connection accepted after Shutdown has been answered by its
\* handler
C38_AcceptedAndServedAfterShutdown ==
    /\ srv.sd = "returned"
    /\ srv.listener = "open"
    /\ srv.late \cap srv.served # {}

\* Accept had returned a connection that Start had not yet tracked when
\* Shutdown began: the wait group was at zero, and the database was closed
\* before the deadline while the handler of that connection was running
C38_ClosedUnderRunningHandler ==
    /\ srv.dbClosed
    /\ ~srv.atClose.expired
    /\ srv.atClose.live # {}
    /\ srv.late = {}

\* ---- frames that violate the protocol ----

\* a line that ends in LF without CR
LfLine(prefix, text) == [t |-> "lf", prefix |-> prefix, text |-> text, s |-> ""]

\* the n bytes of a bulk and two more bytes that are not CRLF
BadBody(s) == [t |-> "nocrlf", prefix |-> "", text |-> <<>>, s |-> s]

\* the frames a faulty client sends, by the violation each commits
Violations ==
    {[name |-> "no CRLF", units |-> <<LfLine("*", <<"1">>)>>],
     [name |-> "no CRLF after bulk",
      units |-> <<Line("*", <<"1">>), Line("$", <<"1">>), BadBody("a")>>],
     [name |-> "non-bulk element", units |-> <<Line("*", <<"1">>), Line("+", <<"O", "K">>)>>],
     [name |-> "empty element", units |-> <<Line("*", <<"1">>), Line("", <<>>)>>],
     [name |-> "unparseable array length", units |-> <<Line("*", <<"x">>)>>],
     [name |-> "unparseable bulk length",
      units |-> <<Line("*", <<"1">>), Line("$", <<"x">>)>>],
     [name |-> "negative array length", units |-> <<Line("*", <<"-", "2">>)>>],
     [name |-> "negative bulk length",
      units |-> <<Line("*", <<"1">>), Line("$", <<"-", "2">>)>>],
     [name |-> "null array", units |-> <<Line("*", <<"-", "1">>)>>]}

ViolationNames == {v.name : v \in Violations}

\* the client writes a frame that violates the protocol
ConnSendRaw(v) ==
    /\ phase = "serve"
    /\ Len(conn.sent) < MaxPipeline
    /\ conn' = [conn EXCEPT !.sent = Append(@, Cmd(v.name, "", <<>>, <<>>)),
                            !.wire = @ \o v.units]
    /\ UNCHANGED <<db, now, ops, closing, bgState, aof, aofFile, rdbFile, rw, phase, loadPos,
                   hist, scn, saving, closers, execs, srv, clusterVars>>

ScnMalformed ==
    Scenario("malformed", "lru", 0,
             {Cmd("ping", "", <<>>, <<>>), Cmd("set", "k1", <<"aa">>, <<>>)}, {}, 0, FALSE, {})

InitMalformed == InitWith(ScnMalformed)

NextMalformed ==
    \/ \E cmd \in scn.cmds : ConnSend(cmd)
    \/ \E v \in Violations : ConnSendRaw(v)
    \/ ConnDeliver
    \/ ConnParse
    \/ ConnHandle
    \/ HandleAof

SpecMalformed == InitMalformed /\ [][NextMalformed]_vars

\* the violations among the frames the client has written
SentViolations == {conn.sent[i].name : i \in DOMAIN conn.sent} \cap ViolationNames

\* C39: a frame that violates the protocol (missing CRLF, a non-bulk or empty
\* array element, an unparseable length, a negative length other than -1, a
\* null array as a command) never ends the server process: no goroutine of
\* the connection panics.
C39_ViolationNeverEndsTheProcess == ~Crashed

\* the violations that do get a parse error: the parser returned after a
\* Payload with an error, which the handler answered with an error reply
C39_ViolationAnsweredWithError ==
    /\ SentViolations # {}
    /\ SentViolations \subseteq {"no CRLF", "no CRLF after bulk", "non-bulk element",
                                 "unparseable array length", "unparseable bulk length"}
    /\ conn.parser = "returned"
    /\ conn.handler = "returned"
    /\ conn.out # <<>>
    /\ conn.out[Len(conn.out)].kind = "error"

\* an empty element line panics parse0 in parseArray
C39_EmptyElementPanics ==
    /\ conn.parser = "panicked"
    /\ SentViolations = {"empty element"}

\* a negative length other than -1 panics parse0 in parseArray or parseBulk
C39_NegativeLengthPanics ==
    /\ conn.parser = "panicked"
    /\ SentViolations \in {{"negative array length"}, {"negative bulk length"}}

\* the null array is no parse error: handleConnection dereferences the nil
\* *MultiBulkReply and panics
C39_NullArrayPanicsHandler ==
    /\ conn.handler = "panicked"
    /\ SentViolations = {"null array"}

\* ---- Lists, Hashes and Sets that lose their last element ----

\* a value of one variant, a TTL on it, and the commands that remove its
\* elements
ScnEmpty(type, policy) ==
    Scenario("empty", policy, 0,
             {Cmd("expire", "k1", <<>>, Num(1)), Cmd("ttl", "k1", <<>>, <<>>)} \cup
             CASE type = "list" ->
                    {Cmd("rpush", "k1", <<"x", "y">>, <<>>), Cmd("rpush", "k1", <<"x">>, <<>>),
                     Cmd("lpop", "k1", <<>>, <<>>), Cmd("rpop", "k1", <<>>, <<>>)}
               [] type = "hash" ->
                    {Cmd("hset", "k1", <<"f1", "x">>, <<>>), Cmd("hset", "k1", <<"f2", "y">>, <<>>),
                     Cmd("hdel", "k1", <<"f1">>, <<>>), Cmd("hdel", "k1", <<"f1", "f2">>, <<>>)}
               [] type = "set" ->
                    {Cmd("sadd", "k1", <<"m1">>, <<>>), Cmd("sadd", "k1", <<"m2">>, <<>>),
                     Cmd("srem", "k1", <<"m1">>, <<>>), Cmd("srem", "k1", <<"m1", "m2">>, <<>>)},
             {}, 0, FALSE, {1})

InitEmpty ==
    \E type \in {"list", "hash", "set"}, policy \in {"lru", "lfu"} :
        InitWith(ScnEmpty(type, policy))

NextEmpty ==
    \/ \E cmd \in scn.cmds : Exec(cmd)
    \/ Background
    \/ HandleAof
    \/ \E d \in scn.ticks : Tick(d)

SpecEmpty == InitEmpty /\ [][NextEmpty]_vars

\* the stored value v is a List, Hash or Set with no element
IsEmptyContainer(v) ==
    \/ v.type = "list" /\ v.list = <<>>
    \/ v.type = "hash" /\ DOMAIN v.hash = {}
    \/ v.type = "set" /\ v.set = {}

\* cmd removes every element of the stored value v
RemovesLast(cmd, v) ==
    CASE cmd.name \in {"lpop", "rpop"} -> v.type = "list" /\ Len(v.list) = 1
      [] cmd.name = "hdel" ->
           v.type = "hash" /\ DOMAIN v.hash # {} /\ DOMAIN v.hash \subseteq Range(cmd.args)
      [] cmd.name = "srem" -> v.type = "set" /\ v.set # {} /\ v.set \subseteq Range(cmd.args)
      [] OTHER -> FALSE

\* the executor serves a command that removes the last element of its key
ServesLastRemoval ==
    /\ ops # <<>>
    /\ ops' = Tail(ops)
    /\ Has(db, Head(ops).cmd.key)
    /\ RemovesLast(Head(ops).cmd, db.vals[Head(ops).cmd.key])

\* C40: no List, Hash or Set with zero elements is stored in the keyspace,
\* and an LPOP, RPOP, HDEL or SREM that removes the last element of its key
\* removes the key and its entry of the TTL table, after which the key is
\* missing and TTL answers -2.
C40_NoEmptyContainerIsStored ==
    /\ [](\A k \in DOMAIN db.vals : ~IsEmptyContainer(db.vals[k]))
    /\ [][ServesLastRemoval =>
            LET k == Head(ops).cmd.key
            IN /\ ~Has(db', k)
               /\ k \notin DOMAIN db'.ttl
               /\ ttl(db', Cmd("ttl", k, <<>>, <<>>), now').res = MakeIntReply(-2)]_vars

\* the last element of a key with a TTL was removed: the command answered
\* with what it removed, and neither the key nor a TTL of it is stored
C40_LastElementRemovedWithTtl ==
    /\ hist.last.op = "cmd"
    /\ hist.last.cmd.name \in {"lpop", "rpop", "hdel", "srem"}
    /\ hist.last.stored
    /\ hist.last.ttl0 # 0
    /\ ~hist.last.due
    /\ hist.last.res \notin {NullBulkReply, MakeIntReply(0)}
    /\ ~isError(hist.last.res)
    /\ ~Has(db, hist.last.cmd.key)
    /\ hist.last.cmd.key \notin DOMAIN db.ttl
=============================================================================
